---- MODULE Spec2Model ----
\* Model of src/src/main.rs: the chunked Whisper transcription
\* (transcribe_whisper_chunked), the batch translator (translate_lines_zh_tw,
\* translate_batch_strict, translate_batch, translate_single_fallback) with its
\* three copies of the retry/backoff loop, the part of main that joins them and
\* writes the output, and the parsing of a bulk reply
\* (try_parse_translations_json, extract_first_json_object).
\*
\* One step of the model is the code that runs between two suspension points
\* (an awaited send of a request, an awaited read of a response body, an
\* awaited sleep) or loop heads. The HTTP service, the file system and ffmpeg
\* are the environment: an action draws what they answer from a small set of
\* statuses, bodies, contents and failures.
\*
\* Specifications: Spec is a whole run of main; SpecStt is
\* transcribe_whisper_chunked alone, with varying segment times; SpecLines is
\* translate_lines_zh_tw called directly (its fair form is FairSpecLines);
\* SpecOrder is translate_lines_zh_tw on one window, which is one call of
\* translate_batch_strict, with a service whose answers are fixed
\* beforehand; SpecParse and SpecExtract apply the parsing functions to
\* replies and texts.
EXTENDS Integers, Sequences, FiniteSets, TLC

\* ---------------------------------------------------------------- bounds
\* Largest number of chunk files ffmpeg produces in a whole run (Spec).
MaxChunks == 2
\* Largest total number of segments (= lines to translate) in a whole run.
MaxLines == 4
\* Largest --translate-batch-size tried (0 .. MaxBatch).
MaxBatch == 4
\* Largest number of lines translate_lines_zh_tw is called with on its own
\* (SpecLines).
MaxCallLines == 3
\* Largest number of chunk files, and largest total number of segments, when
\* the segment times vary (SpecStt).
MaxSttChunks == 3
MaxSegs == 2
\* Largest window translate_batch_strict is called with when the service's
\* answers are fixed beforehand (SpecOrder).
MaxWindow == 3
\* Largest number of strings in a reply that is parsed (SpecParse).
MaxItems == 2
\* Largest length of a text searched for a brace-delimited object (SpecExtract).
MaxText == 5

\* --chunk-seconds values tried.
ChunkSecondsSet == {1, 2, 600}
\* Local segment times (seconds) the transcription service may report: the
\* beginning of a chunk, and a time that is beyond a chunk of 1 second, the
\* very end of a chunk of 2 seconds and inside a chunk of 600 seconds.
LocalTimes == {0, 2}

\* ------------------------------------------------------- program constants
\* Mutant of MaxAttempts: one attempt more.
MaxAttemptsSix == 5 + 1

\* max_attempts of the three retry loops.
MaxAttempts == 5

\* The index of nothing: an error message that names no line or chunk, a
\* length not yet known.
NoIndex == 0 - 1

\* ---------------------------------------------------------------- strings
\* A string is a sequence of one-character strings.
Contains(s, pat) ==
    \E k \in 1..(Len(s) - Len(pat) + 1) : SubSeq(s, k, k + Len(pat) - 1) = pat

DigitChar(d) ==
    CASE d = 0 -> "0" [] d = 1 -> "1" [] d = 2 -> "2" [] d = 3 -> "3"
      [] d = 4 -> "4" [] d = 5 -> "5" [] d = 6 -> "6" [] d = 7 -> "7"
      [] d = 8 -> "8" [] d = 9 -> "9"

\* canonical_reason() of the statuses the model uses.
CanonicalReason(status) ==
    CASE status = 400 -> <<"B", "a", "d", " ", "R", "e", "q", "u", "e", "s", "t">>
      [] status = 401 -> <<"U", "n", "a", "u", "t", "h", "o", "r", "i", "z", "e", "d">>
      [] status = 429 -> <<"T", "o", "o", " ", "M", "a", "n", "y", " ", "R", "e", "q", "u", "e", "s", "t", "s">>
      [] status = 500 -> <<"I", "n", "t", "e", "r", "n", "a", "l", " ", "S", "e", "r", "v", "e", "r", " ", "E", "r", "r", "o", "r">>
      [] status = 502 -> <<"B", "a", "d", " ", "G", "a", "t", "e", "w", "a", "y">>
      [] status = 503 -> <<"S", "e", "r", "v", "i", "c", "e", " ", "U", "n", "a", "v", "a", "i", "l", "a", "b", "l", "e">>
      [] status = 504 -> <<"G", "a", "t", "e", "w", "a", "y", " ", "T", "i", "m", "e", "o", "u", "t">>

\* Display of a StatusCode: "<code> <canonical reason>".
StatusDisplay(status) ==
    <<DigitChar(status \div 100), DigitChar((status \div 10) % 10), DigitChar(status % 10)>>
        \o <<" ">> \o CanonicalReason(status)

\* The retry test all three loops apply to the error message.
IsTransientMsg(msg) ==
    \/ Contains(msg, <<" ", "5", "0", "0", " ">>)
    \/ Contains(msg, <<" ", "5", "0", "2", " ">>)
    \/ Contains(msg, <<" ", "5", "0", "3", " ">>)
    \/ Contains(msg, <<"4", "2", "9">>)

\* transcribe_whisper_verbose: anyhow!("OpenAI transcription error {}: {}", status, text)
SttErrorMsg(status, body) ==
    <<"O", "p", "e", "n", "A", "I", " ", "t", "r", "a", "n", "s", "c", "r", "i", "p", "t", "i", "o", "n", " ", "e", "r", "r", "o", "r", " ">>
        \o StatusDisplay(status) \o <<":", " ">> \o body

\* transcribe_whisper_verbose: .context("Open audio file for transcription")
SttOpenFailedMsg ==
    <<"O", "p", "e", "n", " ", "a", "u", "d", "i", "o", " ", "f", "i", "l", "e", " ", "f", "o", "r", " ", "t", "r", "a", "n", "s", "c", "r", "i", "p", "t", "i", "o", "n">>

\* transcribe_whisper_verbose: `file.read_to_end(&mut buf)?`, the message of
\* the io::Error, here of EIO.
SttReadFailedMsg ==
    <<"I", "n", "p", "u", "t", "/", "o", "u", "t", "p", "u", "t", " ", "e", "r", "r", "o", "r", " ", "(", "o", "s", " ", "e", "r", "r", "o", "r", " ", "5", ")">>

\* transcribe_whisper_verbose: .context("OpenAI transcription request failed")
SttRequestFailedMsg ==
    <<"O", "p", "e", "n", "A", "I", " ", "t", "r", "a", "n", "s", "c", "r", "i", "p", "t", "i", "o", "n", " ", "r", "e", "q", "u", "e", "s", "t", " ", "f", "a", "i", "l", "e", "d">>

\* transcribe_whisper_verbose: .context("Parse Whisper response JSON")
SttParseFailedMsg ==
    <<"P", "a", "r", "s", "e", " ", "W", "h", "i", "s", "p", "e", "r", " ", "r", "e", "s", "p", "o", "n", "s", "e", " ", "J", "S", "O", "N">>

\* translate_batch / translate_single_fallback: format!("{} {}", status, text)
ChatErrorMsg(status, body) == StatusDisplay(status) \o <<" ">> \o body

\* A text is a sequence of characters. A character is written as itself, or,
\* where this notation cannot hold it, by a name: "bq" for the backquote,
\* "U+0085", "U+3000", .. for the character of that code point (four or more
\* upper-case hexadecimal digits).
Quote == "\""
Newline == "\n"
Tab == "\t"
CarriageReturn == "\r"
FormFeed == "\f"
Backslash == "\\"
\* The backquote, which a string of this notation cannot hold, has a name.
Backquote == "bq"
Fence == <<Backquote, Backquote, Backquote>>

\* The characters U+0020 .. U+007E in their order.
Ascii ==
    <<" ", "!", Quote, "#", "$", "%", "&", "'", "(", ")", "*", "+", ",", "-", ".", "/",
      "0", "1", "2", "3", "4", "5", "6", "7", "8", "9", ":", ";", "<", "=", ">", "?",
      "@", "A", "B", "C", "D", "E", "F", "G", "H", "I", "J", "K", "L", "M", "N", "O",
      "P", "Q", "R", "S", "T", "U", "V", "W", "X", "Y", "Z", "[", Backslash, "]", "^", "_",
      Backquote, "a", "b", "c", "d", "e", "f", "g", "h", "i", "j", "k", "l", "m", "n", "o",
      "p", "q", "r", "s", "t", "u", "v", "w", "x", "y", "z", "{", "|", "}", "~">>

HexDigits == <<"0", "1", "2", "3", "4", "5", "6", "7", "8", "9", "A", "B", "C", "D", "E", "F">>

\* The hexadecimal digits of n, four at least.
RECURSIVE HexName(_, _)
HexName(n, width) ==
    IF n < 16 /\ width <= 1 THEN HexDigits[n + 1]
    ELSE HexName(n \div 16, width - 1) \o HexDigits[(n % 16) + 1]

\* The character of code point n.
CharOf(n) ==
    CASE n = 9 -> Tab
      [] n = 10 -> Newline
      [] n = 12 -> FormFeed
      [] n = 13 -> CarriageReturn
      [] n \in 32..126 -> Ascii[n - 31]
      [] OTHER -> "U+" \o HexName(n, 4)

\* char::is_whitespace, which str::trim goes by: the characters of the Unicode
\* property White_Space.
WhiteSpace ==
    {CharOf(n) : n \in (9..13) \cup {32, 133, 160, 5760} \cup (8192..8202)
                         \cup {8232, 8233, 8239, 8287, 12288}}

IsWs(c) == c \in WhiteSpace

\* The whitespace serde_json skips between the tokens of a text: space, line
\* feed, tab, carriage return.
IsJsonWs(c) == c \in {" ", Newline, Tab, CarriageReturn}

\* The control characters, which serde_json takes in no string unescaped.
ControlChars == {CharOf(n) : n \in 0..31}

\* First position from p on that holds no whitespace, Len(s) + 1 if none.
SkipWs(s, p) ==
    IF \E q \in p..Len(s) : ~IsWs(s[q])
    THEN CHOOSE q \in p..Len(s) : ~IsWs(s[q]) /\ \A r \in p..(q - 1) : IsWs(s[r])
    ELSE Len(s) + 1

\* Last position up to p that holds no whitespace, 0 if none.
SkipWsBack(s, p) ==
    IF \E q \in 1..p : ~IsWs(s[q])
    THEN CHOOSE q \in 1..p : ~IsWs(s[q]) /\ \A r \in (q + 1)..p : IsWs(s[r])
    ELSE 0

\* str::trim
Trim(s) == SubSeq(s, SkipWs(s, 1), SkipWsBack(s, Len(s)))

\* str::starts_with, str::ends_with
StartsWith(s, pat) == Len(s) >= Len(pat) /\ SubSeq(s, 1, Len(pat)) = pat
EndsWith(s, pat) == Len(s) >= Len(pat) /\ SubSeq(s, Len(s) - Len(pat) + 1, Len(s)) = pat

\* str::trim_start_matches, str::trim_end_matches: the pattern is removed as
\* often as it stands at the start (at the end).
RECURSIVE TrimStartMatches(_, _)
TrimStartMatches(s, pat) ==
    IF StartsWith(s, pat)
    THEN TrimStartMatches(SubSeq(s, Len(pat) + 1, Len(s)), pat)
    ELSE s

RECURSIVE TrimEndMatches(_, _)
TrimEndMatches(s, pat) ==
    IF EndsWith(s, pat)
    THEN TrimEndMatches(SubSeq(s, 1, Len(s) - Len(pat)), pat)
    ELSE s

\* ------------------------------------------------------ service responses
EmptyBody == <<>>
\* An error body that happens to mention the digits 429.
TokensBody == <<"m", "a", "x", " ", "4", "2", "9", " ", "t", "o", "k", "e", "n", "s">>

\* The error responses (status, body text) the service may give.
ErrorResponses ==
    {[status |-> s, body |-> EmptyBody] : s \in {401, 429, 500, 502, 503, 504}}
        \cup {[status |-> 400, body |-> TokensBody]}

\* The status of a response: success, or one of the error statuses.
Statuses == {200} \cup {r.status : r \in ErrorResponses}

\* `resp.text().await.unwrap_or_default()` on an error response: the body the
\* service sent, or nothing when reading it fails.
ErrorBodies(status) ==
    {r.body : r \in {e \in ErrorResponses : e.status = status}} \cup {EmptyBody}

Min(a, b) == IF a <= b THEN a ELSE b

\* ------------------------------------------------------------------ inputs
\* A chunk of audio is the sequence of segments (local start and end times,
\* start <= end) a successful transcription of it reports.
LocalSegs == {s \in [start : LocalTimes, end : LocalTimes] : s.start <= s.end}

ChunksUpTo(b, segs) == UNION {[1..k -> segs] : k \in 0..b}

RECURSIVE AudiosN(_, _, _)
AudiosN(n, budget, segs) ==
    IF n = 0 THEN {<<>>}
    ELSE UNION {{<<c>> \o rest : rest \in AudiosN(n - 1, budget - Len(c), segs)} :
                    c \in ChunksUpTo(budget, segs)}

\* All audios of at most `chunks` chunks and at most `budget` segments.
Audios(chunks, budget, segs) == UNION {AudiosN(n, budget, segs) : n \in 0..chunks}

\* ------------------------------------------------------------------- state
VARIABLES
    pc,             \* position in the code
    audio,          \* input: the chunk files ffmpeg cuts the audio into, each with what it contains
    chunk_seconds,  \* input: --chunk-seconds
    batch_size,     \* input: --translate-batch-size
    i,              \* transcribe_whisper_chunked: index of the current chunk
    attempt,        \* the current retry loop's attempt counter
    all,            \* transcribe_whisper_chunked: merged segments (main: segments)
    ja_lines,       \* main: ja_lines (translate_lines_zh_tw: lines)
    idx,            \* translate_lines_zh_tw: idx
    wend,           \* translate_lines_zh_tw: end
    result,         \* translate_lines_zh_tw: result (main: zh_lines)
    batch,          \* translate_batch_strict: lines
    out,            \* translate_batch_strict: out
    stack,          \* translate_batch_strict: stack, top last
    range,          \* translate_batch_strict: the popped (start, end)
    ret,            \* what translate_batch or translate_single_fallback returned
    resp,           \* the response `.send().await` gave, whose body is not read yet
    err,            \* the error the run ended with
    written,        \* main: the output steps completed (write_srt, write_ass, burn_in_subtitles)
    reqs,           \* history: requests sent by the current retry loop
    delays,         \* history: sleeps (ms) of the current retry loop
    lastResp,       \* history: the latest answer (error or response) and how it was classified
    calls,          \* history: calls of translate_batch and of translate_single_fallback
    onlyMismatch,   \* history: every translate_batch call so far returned a wrong-length array
    rootLen,        \* history: length of the array the bulk call for the whole window returned
    inflight,       \* history: the sends, body reads and sleeps begun and not yet completed
    reply,          \* translate_batch: content, and the array and the form it was built from
    parsed,         \* translate_batch: how far the parsing of content is, and its result
    service         \* a service whose answer to a call depends on the range or line asked only

vars == <<pc, audio, chunk_seconds, batch_size, i, attempt, all, ja_lines, idx, wend,
          result, batch, out, stack, range, ret, resp, err, written, reqs, delays, lastResp,
          calls, onlyMismatch, rootLen, inflight, reply, parsed, service>>

sttVars == <<i, attempt, all>>
trVars == <<ja_lines, idx, wend, result, batch, out, stack, range, ret>>
histVars == <<reqs, delays, lastResp>>
trHistVars == <<calls, onlyMismatch, rootLen>>
parseVars == <<reply, parsed>>
\* The variables of the specifications of single functions.
fnVars == <<parseVars, service>>

None == [some |-> FALSE, v |-> <<>>]
Some(x) == [some |-> TRUE, v |-> x]

NoErr == [kind |-> "none", status |-> 0, body |-> EmptyBody, index |-> NoIndex]
Error(kind, status, body, index) ==
    [kind |-> kind, status |-> status, body |-> body, index |-> index]

NoResp == [site |-> "none", status |-> 0, body |-> EmptyBody, transient |-> FALSE]
Resp(site, status, body, transient) ==
    [site |-> site, status |-> status, body |-> body, transient |-> transient]

\* Calls made in the whole run (bulk, single), and in the current window:
\* bulk calls (wbulk), fallback calls for each of its lines (wsingle), and
\* these calls in the order they were made (made); and the windows cut so
\* far, which are the calls of translate_batch_strict.
NoCalls ==
    [bulk |-> 0, single |-> 0, wbulk |-> 0, wsingle |-> <<>>, made |-> <<>>, windows |-> 0]

\* A call of translate_batch for the lines start..end of the window, and one
\* of translate_single_fallback for the line start.
BulkCall(start, end) == [call |-> "bulk", start |-> start, end |-> end]
SingleCall(start) == [call |-> "single", start |-> start, end |-> start + 1]

NoRet == [ok |-> FALSE, v |-> <<>>, e |-> NoErr]

\* No response is at hand; a response with its status.
NoResponse == [status |-> 0]
Response(status) == [status |-> status]

\* No service with fixed answers.
NoService == [lines |-> <<>>, bulk |-> <<>>, single |-> <<>>]

\* No reply is being parsed.
NoReply == [items |-> <<>>, form |-> [kind |-> "none", tag |-> <<>>], content |-> <<>>]
NotParsing == [state |-> "none", v |-> <<>>]
Ok(v) == [ok |-> TRUE, v |-> v, e |-> NoErr]
Err(e) == [ok |-> FALSE, v |-> <<>>, e |-> e]

\* A request is sent, or a sleep started: the operation is in progress.
Issue(ops, op) == Append(ops, op)

\* Mutant of Await: the code goes on while the operation is still in progress.
AwaitNot(ops, op) == ops

\* `.await` on the request or sleep: the code goes on when it has completed.
Await(ops, op) == SelectSeq(ops, LAMBDA o : o # op)

InitWith(start, audios, seconds, sizes) ==
    /\ pc = start
    /\ audio \in audios
    /\ chunk_seconds \in seconds
    /\ batch_size \in sizes
    /\ i = 0
    /\ attempt = 0
    /\ all = <<>>
    /\ ja_lines = <<>>
    /\ idx = 0
    /\ wend = 0
    /\ result = <<>>
    /\ batch = <<>>
    /\ out = <<>>
    /\ stack = <<>>
    /\ range = <<0, 0>>
    /\ ret = NoRet
    /\ resp = NoResponse
    /\ err = NoErr
    /\ written = {}
    /\ reqs = 0
    /\ delays = <<>>
    /\ lastResp = NoResp
    /\ calls = NoCalls
    /\ onlyMismatch = TRUE
    /\ rootLen = NoIndex
    /\ inflight = <<>>

\* ------------------------------------------------------- main, beginning
\* Mutant of Fail: the error is recorded and main goes on to its output step.
FailAndGoOn(e) == pc' = "write" /\ err' = e

\* The run ends with error e.
Fail(e) == pc' = "failed" /\ err' = e

\* What ends main before the transcription: "Input file not found: ..", "Set
\* OPENAI_API_KEY environment variable ..", ensure_ffmpeg ("ffmpeg is required
\* ..": it cannot be started; "ffmpeg not available in PATH": it exits with an
\* error), tempdir()?, and extract_audio ("Failed to run ffmpeg to extract
\* audio", "ffmpeg audio extraction failed").
StartFailures ==
    {"input_missing", "no_api_key", "ffmpeg_spawn", "ffmpeg_missing", "tempdir",
     "extract_spawn", "extract_failed"}

\* `Args::parse()` ends the process itself, with no error returned by main:
\* after --help or --version, with exit status 0; on arguments it cannot take
\* (an unknown one, --input missing, a value that is no number or no UTF-8
\* where a String is asked), with exit status 2.
ArgsExits == {"exit_help", "exit_usage"}

\* extract_audio: `input.to_str().unwrap()` and `wav_out.to_str().unwrap()`
\* panic when the path of the input, or that of the temporary directory, is
\* no UTF-8: the process ends with exit status 101, no error returned.
StartPanics == {"panicked"}

\* main from its beginning to the call of transcribe_whisper_chunked.
MainStart ==
    /\ pc = "start"
    /\ \/ \E k \in StartFailures : Fail(Error(k, 0, EmptyBody, NoIndex))
       \/ pc' \in ArgsExits \cup StartPanics /\ UNCHANGED err
       \/ pc' = "chunks" /\ UNCHANGED err
    /\ UNCHANGED <<fnVars, resp, audio, chunk_seconds, batch_size, sttVars, trVars, written,
                   histVars, trHistVars, inflight>>

\* ------------------------------------------------ transcribe_whisper_chunked
\* What ends transcribe_whisper_chunked before the chunks are there: "ffmpeg
\* segmenting failed" (it cannot be started), "ffmpeg failed to segment audio"
\* (it exits with an error), "read chunk dir".
SegmentFailures == {"segment_spawn", "segment_failed", "read_chunk_dir"}

\* transcribe_whisper_chunked up to its loop: the audio is cut, the chunk
\* files are listed and sorted, `if chunks.is_empty()`.
StartChunks ==
    /\ pc = "chunks"
    /\ \/ \E k \in SegmentFailures : Fail(Error(k, 0, EmptyBody, NoIndex))
       \/ IF Len(audio) = 0
          THEN Fail(Error("no_chunks", 0, EmptyBody, NoIndex))
          ELSE pc' = "chunk" /\ UNCHANGED err
    /\ UNCHANGED <<fnVars, resp, audio, chunk_seconds, batch_size, sttVars, trVars, written,
                   histVars, trHistVars, inflight>>

\* What transcribe_whisper_verbose may return for chunk k (0-based): an error
\* with its message, or the parsed reply, whose segments are absent or are
\* those of the chunk, text <<k, j>> standing for what is said in segment j.
\* The errors, in the order of the code: the chunk file cannot be opened, or
\* not be read; the request fails; the response has an error status; its body
\* is not the JSON expected.
SegmentsOf(k) ==
    [j \in 1..Len(audio[k + 1]) |->
        [start |-> audio[k + 1][j].start, end |-> audio[k + 1][j].end, text |-> <<k, j>>]]

SttErr(kind, status, body, msg) ==
    [ok |-> FALSE, kind |-> kind, status |-> status, body |-> body, msg |-> msg,
     segments |-> None]

\* The results that come up before a request is sent, when the request is
\* sent, and when the body of a response of the given status is read.
SttFileErrors ==
    {SttErr("stt_open", 0, EmptyBody, SttOpenFailedMsg),
     SttErr("stt_read", 0, EmptyBody, SttReadFailedMsg)}
SttSendErrors == {SttErr("stt_request", 0, EmptyBody, SttRequestFailedMsg)}
SttBodyResults(k, status) ==
    IF status = 200
    THEN {SttErr("stt_parse", 200, EmptyBody, SttParseFailedMsg)}
         \cup {[ok |-> TRUE, kind |-> "ok", status |-> 200, body |-> EmptyBody,
                msg |-> <<>>, segments |-> s] : s \in {None, Some(SegmentsOf(k))}}
    ELSE {SttErr("stt_status", status, b, SttErrorMsg(status, b)) : b \in ErrorBodies(status)}

SttResults(k) ==
    SttFileErrors \cup SttSendErrors \cup UNION {SttBodyResults(k, st) : st \in Statuses}

\* Mutant of Offset: the chunks are counted from 1.
OffsetFromOne(k, c) == (k + 1) * c

\* `let offset = (i as f64) * (chunk_seconds as f64)`
Offset(k, c) == k * c

\* Mutant of Shift: only the end is moved.
ShiftEndOnly(s, offset) ==
    [start |-> s.start, end |-> s.end + offset, text |-> s.text]

\* `s.start += offset; s.end += offset`
Shift(s, offset) ==
    [start |-> s.start + offset, end |-> s.end + offset, text |-> s.text]

\* Mutant of Backoff: the exponent is the number of retries so far.
BackoffFromOne(n) == (2 ^ (n - 1)) * 1000

\* `2u64.pow(attempt) * 1000`
Backoff(n) == (2 ^ n) * 1000

\* Mutant of RetryDecision: every error is retried until the attempts run out.
RetryAnyError(transient, n) ==
    IF n + 1 >= MaxAttempts THEN "give_up" ELSE "sleep"

\* What a retry loop does with an error, given how it classified it and the
\* attempts counted before it: sleep and ask again, or end with the error.
RetryDecision(transient, n) ==
    IF transient
    THEN IF n + 1 >= MaxAttempts THEN "give_up" ELSE "sleep"
    ELSE "fail"

\* Mutant of Extend: the new items are put before the old ones.
ExtendFront(list, items) == items \o list

\* Vec::extend: `all.extend(segs.into_iter())`, `result.extend(translated)`.
Extend(list, items) == list \o items

\* The arm `Err(e)` of the retry loop: the error r, seen after n counted
\* attempts, is retried after a sleep or ends the run; ops are the operations
\* still in progress.
SttError(r, n, ops) ==
    LET transient == IsTransientMsg(r.msg)
    IN /\ lastResp' = Resp("stt", r.status, r.body, transient)
       /\ attempt' = IF transient THEN n + 1 ELSE n
       /\ IF RetryDecision(transient, n) = "sleep"
          THEN /\ pc' = "stt_sleep"
               /\ inflight' = Issue(ops, "sleep")
               /\ UNCHANGED err
          ELSE /\ Fail(Error(r.kind, r.status, r.body, NoIndex))
               /\ inflight' = ops

\* transcribe_whisper_verbose is called for chunk i and runs up to
\* `.send()`: the chunk file is opened and read and the request is sent, or
\* the call returns the file's error.
SttCall(n, ops) ==
    \/ /\ pc' = "stt"
       /\ attempt' = n
       /\ lastResp' = NoResp
       /\ inflight' = Issue(ops, "stt")
       /\ UNCHANGED err
    \/ \E r \in SttFileErrors : SttError(r, n, ops)

\* Head of `for (i, chunk) in chunks.iter().enumerate()`: the next chunk's retry
\* loop starts with its first call, or the merged list is returned to main.
ChunkLoop ==
    /\ pc = "chunk"
    /\ IF i < Len(audio)
       THEN /\ reqs' = 0
            /\ delays' = <<>>
            /\ SttCall(0, inflight)
       ELSE /\ pc' = "main"
            /\ UNCHANGED <<attempt, histVars, inflight, err>>
    /\ UNCHANGED <<fnVars, resp, audio, chunk_seconds, batch_size, i, all, trVars, written,
                   trHistVars>>

\* `.send().await` of the request for chunk i returns: the request has
\* failed, or there is a response, of which the status is known.
SttSend ==
    /\ pc = "stt"
    /\ reqs' = reqs + 1
    /\ \/ /\ \E r \in SttSendErrors : SttError(r, attempt, Await(inflight, "stt"))
          /\ UNCHANGED resp
       \/ /\ \E st \in Statuses : resp' = Response(st)
          /\ pc' = "stt_body"
          /\ inflight' = Issue(Await(inflight, "stt"), "body")
          /\ UNCHANGED <<attempt, lastResp, err>>
    /\ UNCHANGED <<fnVars, audio, chunk_seconds, batch_size, i, all, trVars, written, delays,
                   trHistVars>>

\* `resp.text().await` or `resp.json().await` returns, and the code up to the
\* next sleep or loop head: the segments are moved by the chunk's offset and
\* appended, or the error is handled.
SttBody ==
    /\ pc = "stt_body"
    /\ resp' = NoResponse
    /\ \E r \in SttBodyResults(i, resp.status) :
        IF r.ok
        THEN /\ lastResp' = Resp("stt", r.status, r.body, FALSE)
             /\ inflight' = Await(inflight, "body")
             /\ IF ~r.segments.some
                THEN /\ Fail(Error("stt_no_segments", 0, EmptyBody, i))
                     /\ UNCHANGED <<i, all>>
                ELSE /\ all' = Extend(all, [j \in 1..Len(r.segments.v) |->
                                          Shift(r.segments.v[j], Offset(i, chunk_seconds))])
                     /\ i' = i + 1
                     /\ pc' = "chunk"
                     /\ UNCHANGED err
             /\ UNCHANGED attempt
        ELSE /\ SttError(r, attempt, Await(inflight, "body"))
             /\ UNCHANGED <<i, all>>
    /\ UNCHANGED <<fnVars, audio, chunk_seconds, batch_size, trVars, written, reqs, delays,
                   trHistVars>>

\* `sleep(Duration::from_millis(backoff)).await` returns and the loop calls
\* transcribe_whisper_verbose again.
SttSleep ==
    /\ pc = "stt_sleep"
    /\ delays' = Append(delays, Backoff(attempt))
    /\ SttCall(attempt, Await(inflight, "sleep"))
    /\ UNCHANGED <<fnVars, resp, audio, chunk_seconds, batch_size, i, all, trVars, written,
                   reqs, trHistVars>>

\* ----------------------------------------------------------------- main
\* Mutant of IsEmpty: the check is missing.
IsEmptyNever(s) == FALSE

\* `segments.is_empty()`
IsEmpty(s) == Len(s) = 0

\* main after the transcription: the empty check, ja_lines, and the call of
\* translate_lines_zh_tw.
MainTranslate ==
    /\ pc = "main"
    /\ IF IsEmpty(all)
       THEN /\ Fail(Error("zero_segments", 0, EmptyBody, NoIndex))
            /\ UNCHANGED ja_lines
       ELSE /\ ja_lines' = [k \in 1..Len(all) |-> all[k].text]
            /\ pc' = "lines"
            /\ UNCHANGED err
    /\ UNCHANGED <<fnVars, resp, audio, chunk_seconds, batch_size, sttVars, idx, wend, result, batch,
                   out, stack, range, ret, written, histVars, trHistVars, inflight>>

\* ------------------------------------------------------ translate_lines_zh_tw
Max(a, b) == IF a >= b THEN a ELSE b

\* Mutant of WindowEnd: the batch size is taken as it is.
WindowEndNoFloor(from, size, len) == Min(from + size, len)

\* `usize::min(idx + batch_size.max(1), lines.len())`
WindowEnd(from, size, len) == Min(from + Max(size, 1), len)

\* `&lines[idx..end]` (0-based, half-open)
Slice(s, from, to) == SubSeq(s, from + 1, to)

\* Entry of translate_lines_zh_tw: an empty list is returned as it is, else
\* result and idx are set up for the loop.
TranslateLines ==
    /\ pc = "lines"
    /\ result' = <<>>
    /\ IF IsEmpty(ja_lines)
       THEN pc' = "write" /\ UNCHANGED idx
       ELSE pc' = "window" /\ idx' = 0
    /\ UNCHANGED <<fnVars, resp, audio, chunk_seconds, batch_size, sttVars, ja_lines, wend, batch,
                   out, stack, range, ret, err, written, histVars, trHistVars, inflight>>

\* Head of `while idx < lines.len()`: the next window is cut and
\* translate_batch_strict is entered (n, out, stack), or result is returned.
Window ==
    /\ pc = "window"
    /\ IF idx < Len(ja_lines)
       THEN LET e == WindowEnd(idx, batch_size, Len(ja_lines))
                n == Len(Slice(ja_lines, idx, e))
            IN /\ wend' = e
               /\ batch' = Slice(ja_lines, idx, e)
               /\ out' = [k \in 1..n |-> None]
               /\ stack' = IF n > 0 THEN <<<<0, n>>>> ELSE <<>>
               /\ rootLen' = NoIndex
               /\ calls' = [calls EXCEPT !.wbulk = 0, !.wsingle = [k \in 1..n |-> 0],
                                          !.made = <<>>, !.windows = @ + 1]
               /\ pc' = "pop"
       ELSE /\ pc' = "write"
            /\ UNCHANGED <<wend, batch, out, stack, rootLen, calls>>
    /\ UNCHANGED <<fnVars, resp, audio, chunk_seconds, batch_size, sttVars, ja_lines, idx, result,
                   range, ret, err, written, histVars, onlyMismatch, inflight>>

\* ------------------------------------------------------ translate_batch_strict
\* Head of `while let Some((start, end)) = stack.pop()`: the popped range is
\* skipped when empty, else translate_batch is called on it (its retry loop
\* starts); with the stack empty the loop ends.
Pop ==
    /\ pc = "pop"
    /\ IF Len(stack) > 0
       THEN /\ range' = stack[Len(stack)]
            /\ stack' = SubSeq(stack, 1, Len(stack) - 1)
            /\ IF stack[Len(stack)][2] - stack[Len(stack)][1] = 0
               THEN /\ pc' = "pop"
                    /\ UNCHANGED <<attempt, histVars, calls, inflight>>
               ELSE /\ pc' = "bulk"
                    /\ attempt' = 0
                    /\ reqs' = 0
                    /\ delays' = <<>>
                    /\ lastResp' = NoResp
                    /\ calls' = [calls EXCEPT
                                     !.bulk = @ + 1, !.wbulk = @ + 1,
                                     !.made = Append(@, BulkCall(stack[Len(stack)][1],
                                                                 stack[Len(stack)][2]))]
                    /\ inflight' = Issue(inflight, "bulk")
       ELSE /\ pc' = "collect"
            /\ UNCHANGED <<range, stack, attempt, histVars, calls, inflight>>
    /\ UNCHANGED <<fnVars, resp, audio, chunk_seconds, batch_size, i, all, ja_lines, idx, wend, result,
                   batch, out, ret, err, written, onlyMismatch, rootLen>>

\* The translation the bulk protocol gives for a line, and the one the
\* single-line protocol gives: strings that name the protocol and the line
\* (chunk and place in the chunk). A surplus item of a bulk array names none.
BulkTr(text) == <<"b", DigitChar(text[1]), DigitChar(text[2])>>
SingleTr(text) == <<"s", DigitChar(text[1]), DigitChar(text[2])>>
SurplusTr == <<"b">>

\* What one request of translate_batch for `texts` may be answered with: no
\* answer, an error status with a body, or a success whose body is not JSON,
\* has no content string, has content the parsing chain rejects, or has
\* content that parses to an array of k strings (one too few, as many as
\* asked, one too many), the j-th the translation of the j-th text.
BulkArray(texts, k) ==
    [j \in 1..k |-> IF j <= Len(texts) THEN BulkTr(texts[j]) ELSE SurplusTr]

BulkReply(kind, status, body, v) == [kind |-> kind, status |-> status, body |-> body, v |-> v]

\* The answers that show when the request is sent, and when the body of a
\* response of the given status has been read.
BulkSendErrors == {BulkReply("request", 0, EmptyBody, <<>>)}
BulkBodies(texts, status) ==
    IF status = 200
    THEN {BulkReply(k, 200, EmptyBody, <<>>) : k \in {"json", "structure", "unparseable"}}
         \cup {BulkReply("array", 200, EmptyBody, BulkArray(texts, k)) :
                  k \in (Len(texts) - 1)..(Len(texts) + 1)}
    ELSE {BulkReply("status", status, b, <<>>) : b \in ErrorBodies(status)}

BulkReplies(texts) == BulkSendErrors \cup UNION {BulkBodies(texts, st) : st \in Statuses}

\* translate_batch: `.send().await` returns: the request has failed, which
\* the function returns, or there is a response, of which the status is known.
BulkSend ==
    /\ pc = "bulk"
    /\ reqs' = reqs + 1
    /\ \/ /\ \E r \in BulkSendErrors :
                /\ lastResp' = Resp("bulk", r.status, r.body, FALSE)
                /\ ret' = Err(Error("bulk_" \o r.kind, r.status, r.body, NoIndex))
          /\ inflight' = Await(inflight, "bulk")
          /\ pc' = "bulk_ret"
          /\ UNCHANGED resp
       \/ /\ \E st \in Statuses : resp' = Response(st)
          /\ pc' = "bulk_body"
          /\ inflight' = Issue(Await(inflight, "bulk"), "body")
          /\ UNCHANGED <<lastResp, ret>>
    /\ UNCHANGED <<fnVars, audio, chunk_seconds, batch_size, sttVars, ja_lines, idx, wend, result,
                   batch, out, stack, range, err, written, delays, trHistVars>>

\* translate_batch: `resp.json().await` or `resp.text().await` returns, and
\* the code up to the next sleep or the return.
BulkBody ==
    /\ pc = "bulk_body"
    /\ resp' = NoResponse
    /\ \E r \in BulkBodies(Slice(batch, range[1], range[2]), resp.status) :
        IF r.kind = "status"
        THEN LET transient == IsTransientMsg(ChatErrorMsg(r.status, r.body))
             IN /\ lastResp' = Resp("bulk", r.status, r.body, transient)
                /\ attempt' = IF transient THEN attempt + 1 ELSE attempt
                /\ IF RetryDecision(transient, attempt) = "sleep"
                   THEN /\ pc' = "bulk_sleep"
                        /\ inflight' = Issue(Await(inflight, "body"), "sleep")
                        /\ UNCHANGED ret
                   ELSE /\ ret' = Err(Error("bulk_status", r.status, r.body, NoIndex))
                        /\ inflight' = Await(inflight, "body")
                        /\ pc' = "bulk_ret"
        ELSE /\ lastResp' = Resp("bulk", r.status, r.body, FALSE)
             /\ inflight' = Await(inflight, "body")
             /\ ret' = IF r.kind = "array"
                       THEN Ok(r.v)
                       ELSE Err(Error("bulk_" \o r.kind, r.status, r.body, NoIndex))
             /\ pc' = "bulk_ret"
             /\ UNCHANGED attempt
    /\ UNCHANGED <<fnVars, audio, chunk_seconds, batch_size, i, all, ja_lines, idx, wend, result,
                   batch, out, stack, range, err, written, reqs, delays, trHistVars>>

\* translate_batch: `sleep(Duration::from_millis(backoff)).await; continue`
BulkSleep ==
    /\ pc = "bulk_sleep"
    /\ delays' = Append(delays, Backoff(attempt))
    /\ lastResp' = NoResp
    /\ inflight' = Issue(Await(inflight, "sleep"), "bulk")
    /\ pc' = "bulk"
    /\ UNCHANGED <<fnVars, resp, audio, chunk_seconds, batch_size, sttVars, trVars, err, written,
                   reqs, trHistVars>>

\* Mutant of Mid: all lines but the last go to the left part.
MidLast(start, len) == start + (len - 1)

\* Mutant of Mid: a third instead of a half, which for two lines is nothing.
MidThird(start, len) == start + (len \div 3)

\* Mutant of Mid: the midpoint is the end of the range, so the "left half" is
\* the whole range again.
MidAtEnd(start, len) == start + len

\* `let mid = start + len / 2`
Mid(start, len) == start + (len \div 2)

\* Mutant of PushHalves: the right half starts one line late.
PushHalvesGap(st, start, mid, end) == st \o <<<<mid + 1, end>>, <<start, mid>>>>

\* Mutant of PushHalves: only the right half is pushed.
PushRightOnly(st, start, mid, end) == st \o <<<<mid, end>>>>

\* Mutant of PushHalves: only the left half is pushed.
PushLeftOnly(st, start, mid, end) == st \o <<<<start, mid>>>>

\* Mutant of PushHalves: the left half is pushed first, so the right half is
\* on top.
PushHalvesLeftFirst(st, start, mid, end) == st \o <<<<start, mid>>, <<mid, end>>>>

\* `stack.push((mid, end)); stack.push((start, mid))`
PushHalves(st, start, mid, end) == st \o <<<<mid, end>>, <<start, mid>>>>

\* Mutant of WriteSlots: the array is written into the first empty slots,
\* whatever the range.
WriteSlotsNextFree(o, start, v) ==
    LET free == SelectSeq([k \in 1..Len(o) |-> k], LAMBDA k : ~o[k].some)
    IN [k \in 1..Len(o) |->
           IF \E j \in 1..Min(Len(v), Len(free)) : free[j] = k
           THEN Some(v[CHOOSE j \in 1..Min(Len(v), Len(free)) : free[j] = k])
           ELSE o[k]]

\* Mutant of WriteSlots: the array is written from slot 0, not from start.
WriteSlotsNoOffset(o, start, v) ==
    [k \in 1..Len(o) |-> IF k - 1 < Len(v) THEN Some(v[k]) ELSE o[k]]

\* Mutant of WriteSlots: every slot of the range gets the first element of v.
WriteSlotsFirst(o, start, v) ==
    [k \in 1..Len(o) |->
        IF k - 1 >= start /\ k - 1 < start + Len(v) THEN Some(v[1]) ELSE o[k]]

\* `out[start + i] = Some(t)` for every (i, t) of v (i 0-based)
WriteSlots(o, start, v) ==
    [k \in 1..Len(o) |->
        IF k - 1 >= start /\ k - 1 < start + Len(v) THEN Some(v[k - start]) ELSE o[k]]

\* Mutant of OkOfLen: an array of any length is taken.
OkAnyLen(r, len) == r.ok

\* The arm `Ok(v) if v.len() == len`.
OkOfLen(r, len) == r.ok /\ Len(r.v) = len

\* The match on translate_batch's result: the slots are written, or the range
\* of one line goes to translate_single_fallback (its retry loop starts) and a
\* longer range is split.
BulkReturn ==
    /\ pc = "bulk_ret"
    /\ LET start == range[1]
           end == range[2]
           len == end - start
       IN /\ onlyMismatch' = (onlyMismatch /\ ret.ok /\ Len(ret.v) # len)
          /\ rootLen' = IF start = 0 /\ end = Len(batch) /\ ret.ok THEN Len(ret.v) ELSE rootLen
          /\ IF OkOfLen(ret, len)
             THEN /\ out' = WriteSlots(out, start, ret.v)
                  /\ pc' = "pop"
                  /\ UNCHANGED <<stack, calls, inflight>>
             ELSE IF len = 1
                  THEN /\ pc' = "single"
                       /\ calls' = [calls EXCEPT !.single = @ + 1, !.wsingle[start + 1] = @ + 1,
                                                  !.made = Append(@, SingleCall(start))]
                       /\ inflight' = Issue(inflight, "single")
                       /\ UNCHANGED <<out, stack>>
                  ELSE /\ stack' = PushHalves(stack, start, Mid(start, len), end)
                       /\ pc' = "pop"
                       /\ UNCHANGED <<out, calls, inflight>>
    /\ ret' = NoRet
    /\ attempt' = 0
    /\ reqs' = 0
    /\ delays' = <<>>
    /\ lastResp' = NoResp
    /\ UNCHANGED <<fnVars, resp, audio, chunk_seconds, batch_size, i, all, ja_lines, idx, wend, result,
                   batch, range, err, written>>

\* The content of a successful reply of the single-line protocol for `text`:
\* none (the member is missing or no string), nothing, whitespace, a pair of
\* quotes, or the translation, bare, in quotes or in whitespace.
SingleContents(text) ==
    {None, Some(<<>>), Some(<<" ", Tab, CarriageReturn, Newline>>), Some(<<Quote, Quote>>),
     Some(SingleTr(text)),
     Some(<<Quote>> \o SingleTr(text) \o <<Quote>>),
     Some(<<Tab>> \o SingleTr(text) \o <<CarriageReturn, Newline>>)}

\* `.as_str().unwrap_or("")`
UnwrapOrEmpty(c) == IF c.some THEN c.v ELSE <<>>

\* str::trim_matches: the pattern is removed at both ends as often as it
\* stands there.
TrimMatches(s, pat) == TrimEndMatches(TrimStartMatches(s, pat), pat)

\* `content ... .trim()` and "Strip surrounding quotes if any".
Cleaned(c) == TrimMatches(Trim(UnwrapOrEmpty(c)), <<Quote>>)

\* What one request of translate_single_fallback for `text` may be answered
\* with: no answer, an error status with a body, a success whose body is not
\* JSON, or a success with one of the contents above.
SingleReply(kind, status, body, v) == [kind |-> kind, status |-> status, body |-> body, v |-> v]

\* The answers that show when the request is sent, and when the body of a
\* response of the given status has been read.
SingleSendErrors == {SingleReply("request", 0, EmptyBody, None)}
SingleBodies(text, status) ==
    IF status = 200
    THEN {SingleReply("json", 200, EmptyBody, None)}
         \cup {SingleReply("text", 200, EmptyBody, c) : c \in SingleContents(text)}
    ELSE {SingleReply("status", status, b, None) : b \in ErrorBodies(status)}

SingleReplies(text) == SingleSendErrors \cup UNION {SingleBodies(text, st) : st \in Statuses}

\* translate_single_fallback: `.send().await` returns: the request has
\* failed, which the function returns, or there is a response, of which the
\* status is known.
SingleSend ==
    /\ pc = "single"
    /\ reqs' = reqs + 1
    /\ \/ /\ \E r \in SingleSendErrors :
                /\ lastResp' = Resp("single", r.status, r.body, FALSE)
                /\ ret' = Err(Error("single_" \o r.kind, r.status, r.body, NoIndex))
          /\ inflight' = Await(inflight, "single")
          /\ pc' = "single_ret"
          /\ UNCHANGED resp
       \/ /\ \E st \in Statuses : resp' = Response(st)
          /\ pc' = "single_body"
          /\ inflight' = Issue(Await(inflight, "single"), "body")
          /\ UNCHANGED <<lastResp, ret>>
    /\ UNCHANGED <<fnVars, audio, chunk_seconds, batch_size, sttVars, ja_lines, idx, wend, result,
                   batch, out, stack, range, err, written, delays, trHistVars>>

\* translate_single_fallback: `resp.json().await` or `resp.text().await`
\* returns, and the code up to the next sleep or the return.
SingleBody ==
    /\ pc = "single_body"
    /\ resp' = NoResponse
    /\ \E r \in SingleBodies(batch[range[1] + 1], resp.status) :
        IF r.kind = "status"
        THEN LET transient == IsTransientMsg(ChatErrorMsg(r.status, r.body))
             IN /\ lastResp' = Resp("single", r.status, r.body, transient)
                /\ attempt' = IF transient THEN attempt + 1 ELSE attempt
                /\ IF RetryDecision(transient, attempt) = "sleep"
                   THEN /\ pc' = "single_sleep"
                        /\ inflight' = Issue(Await(inflight, "body"), "sleep")
                        /\ UNCHANGED ret
                   ELSE /\ ret' = Err(Error("single_status", r.status, r.body, NoIndex))
                        /\ inflight' = Await(inflight, "body")
                        /\ pc' = "single_ret"
        ELSE /\ lastResp' = Resp("single", r.status, r.body, FALSE)
             /\ inflight' = Await(inflight, "body")
             /\ ret' = IF r.kind = "text"
                       THEN Ok(Cleaned(r.v))
                       ELSE Err(Error("single_" \o r.kind, r.status, r.body, NoIndex))
             /\ pc' = "single_ret"
             /\ UNCHANGED attempt
    /\ UNCHANGED <<fnVars, audio, chunk_seconds, batch_size, i, all, ja_lines, idx, wend, result,
                   batch, out, stack, range, err, written, reqs, delays, trHistVars>>

\* translate_single_fallback: `sleep(Duration::from_millis(backoff)).await; continue`
SingleSleep ==
    /\ pc = "single_sleep"
    /\ delays' = Append(delays, Backoff(attempt))
    /\ lastResp' = NoResp
    /\ inflight' = Issue(Await(inflight, "sleep"), "single")
    /\ pc' = "single"
    /\ UNCHANGED <<fnVars, resp, audio, chunk_seconds, batch_size, sttVars, trVars, err, written,
                   reqs, trHistVars>>

\* What the `?` after translate_single_fallback propagates, through
\* translate_batch_strict, translate_lines_zh_tw and main.
FallbackError(e, start) == e

\* `let t = translate_single_fallback(..).await?; out[start] = Some(t)`
SingleReturn ==
    /\ pc = "single_ret"
    /\ IF ret.ok
       THEN /\ out' = WriteSlots(out, range[1], <<ret.v>>)
            /\ pc' = "pop"
            /\ ret' = NoRet
            /\ attempt' = 0
            /\ reqs' = 0
            /\ delays' = <<>>
            /\ lastResp' = NoResp
            /\ UNCHANGED err
       ELSE /\ Fail(FallbackError(ret.e, range[1]))
            /\ UNCHANGED <<out, ret, attempt, histVars>>
    /\ UNCHANGED <<fnVars, resp, audio, chunk_seconds, batch_size, i, all, ja_lines, idx, wend, result,
                   batch, stack, range, written, trHistVars, inflight>>

\* Index (0-based) of the first empty slot, or NoIndex.
FirstEmpty(o) ==
    IF \E k \in 1..Len(o) : ~o[k].some
    THEN (CHOOSE k \in 1..Len(o) : ~o[k].some /\ \A m \in 1..(k - 1) : o[m].some) - 1
    ELSE NoIndex

\* `slot.take()` on the first n slots: their values are moved out.
TakeSlots(o, n) == [k \in 1..Len(o) |-> IF k <= n THEN None ELSE o[k]]

\* "Collect and ensure all present": the values are moved out of the slots
\* into the result, up to the first empty slot if there is one; and back in
\* translate_lines_zh_tw `result.extend(translated); idx = end`.
Collect ==
    /\ pc = "collect"
    /\ IF FirstEmpty(out) # NoIndex
       THEN /\ Fail(Error("line_missing", 0, EmptyBody, FirstEmpty(out)))
            /\ out' = TakeSlots(out, FirstEmpty(out))
            /\ UNCHANGED <<result, idx>>
       ELSE /\ result' = Extend(result, [k \in 1..Len(out) |-> out[k].v])
            /\ out' = TakeSlots(out, Len(out))
            /\ idx' = wend
            /\ pc' = "window"
            /\ UNCHANGED err
    /\ UNCHANGED <<fnVars, resp, audio, chunk_seconds, batch_size, sttVars, ja_lines, wend, batch,
                   stack, range, ret, written, histVars, trHistVars, inflight>>

\* What ends main in its output steps: write_srt ("Create SRT at ..", or a
\* write fails), write_ass ("Create ASS at ..", or a write fails),
\* burn_in_subtitles ("ffmpeg burn-in subtitles failed": ffmpeg cannot be
\* started; "ffmpeg burn-in failed": it exits with an error); with each, the
\* output steps completed before it.
OutputFailures ==
    {[kind |-> "srt_create", done |-> {}], [kind |-> "srt_write", done |-> {}],
     [kind |-> "ass_create", done |-> {"srt"}], [kind |-> "ass_write", done |-> {"srt"}],
     [kind |-> "burn_spawn", done |-> {"srt", "ass"}],
     [kind |-> "burn_failed", done |-> {"srt", "ass"}]}

\* The output steps of a run: `args.burn_in || output_mp4.is_some()` holds in
\* every run, burn_in being a flag whose default is true. The ASS file is in
\* the temporary directory, which goes when main returns.
OutputFiles == {"srt", "ass", "video"}

\* main after the translation: the count check, write_srt, write_ass and
\* burn_in_subtitles.
MainWrite ==
    /\ pc = "write"
    /\ IF Len(result) # Len(ja_lines)
       THEN /\ Fail(Error("count_mismatch", 0, EmptyBody, NoIndex))
            /\ UNCHANGED written
       ELSE \/ \E f \in OutputFailures :
                /\ written' = written \cup f.done
                /\ Fail(Error(f.kind, 0, EmptyBody, NoIndex))
            \/ /\ written' = written \cup OutputFiles
               /\ pc' = "done"
               /\ UNCHANGED err
    /\ UNCHANGED <<fnVars, resp, audio, chunk_seconds, batch_size, sttVars, trVars, histVars,
                   trHistVars, inflight>>

NextStt == StartChunks \/ ChunkLoop \/ SttSend \/ SttBody \/ SttSleep

\* transcribe_whisper_chunked alone, on audios whose segment times vary.
InitStt ==
    /\ InitWith("chunks", Audios(MaxSttChunks, MaxSegs, LocalSegs), ChunkSecondsSet, {MaxBatch})
    /\ reply = NoReply
    /\ parsed = NotParsing
    /\ service = NoService
SpecStt == InitStt /\ [][NextStt]_vars

NextLines ==
    \/ TranslateLines \/ Window \/ Pop \/ BulkSend \/ BulkBody \/ BulkSleep \/ BulkReturn
    \/ SingleSend \/ SingleBody \/ SingleSleep \/ SingleReturn \/ Collect

NextTranslate ==
    \/ MainTranslate \/ TranslateLines \/ Window \/ Pop \/ BulkSend \/ BulkBody \/ BulkSleep
    \/ BulkReturn \/ SingleSend \/ SingleBody \/ SingleSleep \/ SingleReturn \/ Collect
    \/ MainWrite

Next == MainStart \/ NextStt \/ NextTranslate

\* The canonical segment of the audios of a whole run.
UnitSeg == [start |-> 0, end |-> 1]

\* The chunks of the audio hold equally many segments.
Uniform(a) == \A k \in 1..Len(a) : Len(a[k]) = Len(a[1])

\* A whole run of main. What the translation does depends on the number of
\* lines only, so of the ways to spread the lines over the chunks one is
\* taken; SpecStt has them all.
Init ==
    /\ InitWith("start", {a \in Audios(MaxChunks, MaxLines, {UnitSeg}) : Uniform(a)}, {600},
                0..MaxBatch)
    /\ reply = NoReply
    /\ parsed = NotParsing
    /\ service = NoService
Spec == Init /\ [][Next]_vars

\* The run is one sequential task: whenever a step is possible (every awaited
\* request is answered, every sleep ends) a step is taken.
FairSpec == Spec /\ WF_vars(Next)

\* translate_lines_zh_tw alone, called with any list of at most MaxCallLines
\* lines, the empty one too, and any batch size.
LineLists == {[k \in 1..n |-> <<0, k>>] : n \in 0..MaxCallLines}

\* The state in which translate_lines_zh_tw is called with one of the lists
\* and batch sizes given.
InitCall(lists, sizes) ==
    /\ pc = "lines"
    /\ audio = <<>>
    /\ chunk_seconds = 600
    /\ batch_size \in sizes
    /\ i = 0
    /\ attempt = 0
    /\ all = <<>>
    /\ ja_lines \in lists
    /\ idx = 0
    /\ wend = 0
    /\ result = <<>>
    /\ batch = <<>>
    /\ out = <<>>
    /\ stack = <<>>
    /\ range = <<0, 0>>
    /\ ret = NoRet
    /\ resp = NoResponse
    /\ err = NoErr
    /\ written = {}
    /\ reqs = 0
    /\ delays = <<>>
    /\ lastResp = NoResp
    /\ calls = NoCalls
    /\ onlyMismatch = TRUE
    /\ rootLen = NoIndex
    /\ inflight = <<>>

InitLines ==
    /\ InitCall(LineLists, 0..MaxBatch)
    /\ reply = NoReply
    /\ parsed = NotParsing
    /\ service = NoService

SpecLines == InitLines /\ [][NextLines]_vars

\* As FairSpec: every awaited request is answered and every sleep ends.
FairSpecLines == SpecLines /\ WF_vars(NextLines)

\* --------------------------- translate_batch_strict with a fixed service
\* The ranges translate_batch_strict can ask a bulk translation for when it
\* starts from r.
RECURSIVE SplitRanges(_)
SplitRanges(r) ==
    IF r[2] - r[1] <= 1 THEN {r}
    ELSE {r} \cup SplitRanges(<<r[1], Mid(r[1], r[2] - r[1])>>)
             \cup SplitRanges(<<Mid(r[1], r[2] - r[1]), r[2]>>)

\* What a call of translate_batch returns: the array of the translations, an
\* array one short, or an error. What a call of translate_single_fallback
\* returns: the translation or an error.
BulkAnswers == {"array", "short", "error"}
SingleAnswers == {"text", "error"}

\* A service whose answer to a call depends on the range, or the line, asked
\* only: for a window of n lines (one at least: translate_batch_strict is
\* called with no less), an answer for every range and every line.
ServicesFor(n) ==
    {[lines |-> [k \in 1..n |-> <<0, k>>], bulk |-> b, single |-> s] :
        b \in [SplitRanges(<<0, n>>) -> BulkAnswers], s \in [1..n -> SingleAnswers]}

Services(max) == UNION {ServicesFor(n) : n \in 1..max}

\* `translate_batch(&lines[start..end], ..).await` with the service svc.
BulkResult(svc, r) ==
    LET texts == Slice(svc.lines, r[1], r[2])
    IN CASE svc.bulk[r] = "array" -> Ok(BulkArray(texts, Len(texts)))
         [] svc.bulk[r] = "short" -> Ok(BulkArray(texts, Len(texts) - 1))
         [] svc.bulk[r] = "error" -> Err(Error("bulk_status", 401, EmptyBody, NoIndex))

\* `translate_single_fallback(&lines[start], ..).await` with the service svc.
SingleResult(svc, start) ==
    IF svc.single[start + 1] = "text"
    THEN Ok(SingleTr(svc.lines[start + 1]))
    ELSE Err(Error("single_status", 401, EmptyBody, NoIndex))

\* The service answers as it has fixed: what translate_batch has returned for
\* the range, and translate_single_fallback for the line, is what the service
\* gives for it; an error is any of the errors the function can return.
AsFixed(r) == IF r.ok THEN ret = r ELSE ~ret.ok

Answered ==
    /\ pc = "bulk_ret" => AsFixed(BulkResult(service, range))
    /\ pc = "single_ret" => AsFixed(SingleResult(service, range[1]))

\* The steps of translate_lines_zh_tw, with the answers of the service in the
\* steps in which translate_batch or translate_single_fallback returns.
NextOrder ==
    \/ TranslateLines \/ Window \/ Pop
    \/ BulkSend /\ Answered'
    \/ BulkBody /\ Answered'
    \/ BulkSleep \/ BulkReturn
    \/ SingleSend /\ Answered'
    \/ SingleBody /\ Answered'
    \/ SingleSleep \/ SingleReturn \/ Collect

\* translate_batch_strict with every service of fixed answers:
\* translate_lines_zh_tw is called with lines that make one window, which
\* is one call of translate_batch_strict.
InitOrder ==
    /\ service \in Services(MaxWindow)
    /\ InitCall({service.lines}, {MaxWindow})
    /\ reply = NoReply
    /\ parsed = NotParsing

SpecOrder == InitOrder /\ [][NextOrder]_vars

\* --------------------------------------------------------- response parsing
\* serde_json::Value: strings, arrays, objects, and the values that are none
\* of these (numbers, true, false, null), kept as the text that stands for
\* them.
JString(x) == [type |-> "string", v |-> x]
JArray(xs) == [type |-> "array", v |-> xs]
JObject(members) == [type |-> "object", v |-> members]
JOther(text) == [type |-> "other", v |-> text]

ParseFail == [ok |-> FALSE, v |-> JString(<<>>), next |-> 0]
Parsed(v, next) == [ok |-> TRUE, v |-> v, next |-> next]

\* First position from p on that holds no JSON whitespace, Len(s) + 1 if none.
SkipJsonWs(s, p) ==
    IF \E q \in p..Len(s) : ~IsJsonWs(s[q])
    THEN CHOOSE q \in p..Len(s) : ~IsJsonWs(s[q]) /\ \A r \in p..(q - 1) : IsJsonWs(s[r])
    ELSE Len(s) + 1

\* The value of a hexadecimal digit, of either case.
LowerHexDigits ==
    <<"0", "1", "2", "3", "4", "5", "6", "7", "8", "9", "a", "b", "c", "d", "e", "f">>
IsHex(c) == \E n \in 1..16 : c = HexDigits[n] \/ c = LowerHexDigits[n]
HexVal(c) == (CHOOSE n \in 1..16 : c = HexDigits[n] \/ c = LowerHexDigits[n]) - 1

\* The number the four hexadecimal digits at p stand for, -1 if they are not
\* there.
Hex4(s, p) ==
    IF p + 3 <= Len(s) /\ \A q \in p..(p + 3) : IsHex(s[q])
    THEN HexVal(s[p]) * 4096 + HexVal(s[p + 1]) * 256 + HexVal(s[p + 2]) * 16 + HexVal(s[p + 3])
    ELSE 0 - 1

\* The \u escape at p whose four digits stand for n: the first half of a
\* surrogate pair must be followed by the escape of the second half, n2 being
\* what the digits at p + 8 stand for.
SurrogatePair(p, n, n2) ==
    IF n2 \in 56320..57343
    THEN Parsed(CharOf(65536 + (n - 55296) * 1024 + (n2 - 56320)), p + 12)
    ELSE ParseFail

UnicodeEscape(s, p, n) ==
    IF n < 0 \/ n \in 56320..57343 THEN ParseFail
    ELSE IF n \in 55296..56319
    THEN IF p + 7 <= Len(s) /\ s[p + 6] = Backslash /\ s[p + 7] = "u"
         THEN SurrogatePair(p, n, Hex4(s, p + 8))
         ELSE ParseFail
    ELSE Parsed(CharOf(n), p + 6)

\* The escape that starts with the backslash at p, e being the character
\* after it: the character it stands for and the position after it.
EscapeOf(s, p, e) ==
    CASE e \in {Quote, Backslash, "/"} -> Parsed(e, p + 2)
      [] e = "b" -> Parsed(CharOf(8), p + 2)
      [] e = "f" -> Parsed(FormFeed, p + 2)
      [] e = "n" -> Parsed(Newline, p + 2)
      [] e = "r" -> Parsed(CarriageReturn, p + 2)
      [] e = "t" -> Parsed(Tab, p + 2)
      [] e = "u" -> UnicodeEscape(s, p, Hex4(s, p + 2))
      [] OTHER -> ParseFail

ParseEscape(s, p) == IF p + 1 > Len(s) THEN ParseFail ELSE EscapeOf(s, p, s[p + 1])

\* The characters cs before what was read after them.
Before(cs, rest) == IF rest.ok THEN Parsed(cs \o rest.v, rest.next) ELSE ParseFail

\* A string from the quote at p: its characters up to the closing quote,
\* escapes replaced; a control character ends it in an error. from[q] is what
\* is read from q on when q is inside the string.
ParseString(s, p) ==
    LET from[q \in 1..(Len(s) + 1)] ==
            LET Escaped(e) == IF e.ok THEN Before(<<e.v>>, from[e.next]) ELSE ParseFail
            IN IF q > Len(s) THEN ParseFail
               ELSE IF s[q] = Quote THEN Parsed(<<>>, q + 1)
               ELSE IF s[q] = Backslash THEN Escaped(ParseEscape(s, q))
               ELSE IF s[q] \in ControlChars THEN ParseFail
               ELSE Before(<<s[q]>>, from[q + 1])
        String(r) == IF r.ok THEN Parsed(JString(r.v), r.next) ELSE ParseFail
    IN String(from[p + 1])

Digits == {"0", "1", "2", "3", "4", "5", "6", "7", "8", "9"}
DigitVal(c) == HexVal(c)

\* First position from p on that holds no digit, Len(s) + 1 if none.
DigitsEnd(s, p) ==
    IF \E q \in p..Len(s) : s[q] \notin Digits
    THEN CHOOSE q \in p..Len(s) : s[q] \notin Digits /\ \A r \in p..(q - 1) : s[r] \in Digits
    ELSE Len(s) + 1

\* The digits without leading zeros.
Significant(ds) ==
    IF \E k \in 1..Len(ds) : ds[k] # "0"
    THEN SubSeq(ds, CHOOSE k \in 1..Len(ds) : ds[k] # "0" /\ \A j \in 1..(k - 1) : ds[j] = "0",
                Len(ds))
    ELSE <<>>

\* u64::MAX: serde_json keeps the significand of a number in a u64.
U64Max ==
    <<"1", "8", "4", "4", "6", "7", "4", "4", "0", "7", "3", "7", "0", "9", "5", "5", "1", "6", "1", "5">>

\* i32::MAX: serde_json keeps the exponent of a number in an i32.
I32Max == 2147483647

\* a < b, for numbers given by their digits, none a leading zero.
Less(a, b) ==
    \/ Len(a) < Len(b)
    \/ /\ Len(a) = Len(b)
       /\ \E k \in 1..Len(a) : /\ DigitVal(a[k]) < DigitVal(b[k])
                                /\ \A j \in 1..(k - 1) : a[j] = b[j]

\* The significand sig with the first k of the digits ds added to it.
With(sig, ds, k) == Significant(sig \o SubSeq(ds, 1, k))

\* How many of the digits ds are added to the significand sig: a digit is
\* added while `significand * 10 + digit` is no more than u64::MAX; the first
\* that is not, and the digits after it, are left out.
Taken(sig, ds) ==
    LET fits == {k \in 0..Len(ds) : ~Less(U64Max, With(sig, ds, k))}
    IN CHOOSE k \in fits : \A j \in fits : j <= k

\* `exp * 10 + digit`, or NoIndex when that is more than i32::MAX.
ExpDigit(exp, digit) ==
    IF exp = NoIndex THEN NoIndex
    ELSE IF exp >= I32Max \div 10 /\ (exp > I32Max \div 10 \/ digit > I32Max % 10)
    THEN NoIndex
    ELSE exp * 10 + digit

\* The exponent the digits ds stand for, or NoIndex when it is more than
\* i32::MAX.
ExpValue(ds) ==
    LET val[k \in 0..Len(ds)] == IF k = 0 THEN 0 ELSE ExpDigit(val[k - 1], DigitVal(ds[k]))
    IN val[Len(ds)]

\* i32::saturating_add and i32::saturating_sub of an exponent b >= 0.
SaturatingAdd(a, b) == IF a > 0 /\ b > I32Max - a THEN I32Max ELSE a + b
SaturatingSub(a, b) == IF a < 0 /\ b > (I32Max + a) + 1 THEN (0 - I32Max) - 1 ELSE a - b

\* For the exponents 289 to 308, the least significand whose product with
\* that power of ten is no finite f64: the significand is converted to an
\* f64 and multiplied by the f64 nearest to the power of ten, both rounded to
\* the nearest f64, and the product is infinite from this significand on. The
\* product of a u64 and a smaller power of ten is always finite.
InfiniteFrom ==
    <<<<"1", "7", "9", "7", "6", "9", "3", "1", "3", "4", "8", "6", "2", "3", "1", "5", "6", "2", "2", "5">>,
      <<"1", "7", "9", "7", "6", "9", "3", "1", "3", "4", "8", "6", "2", "3", "1", "5", "6", "4", "9">>,
      <<"1", "7", "9", "7", "6", "9", "3", "1", "3", "4", "8", "6", "2", "3", "1", "6", "0", "0">>,
      <<"1", "7", "9", "7", "6", "9", "3", "1", "3", "4", "8", "6", "2", "3", "1", "5", "8">>,
      <<"1", "7", "9", "7", "6", "9", "3", "1", "3", "4", "8", "6", "2", "3", "1", "6">>,
      <<"1", "7", "9", "7", "6", "9", "3", "1", "3", "4", "8", "6", "2", "3", "2">>,
      <<"1", "7", "9", "7", "6", "9", "3", "1", "3", "4", "8", "6", "2", "4">>,
      <<"1", "7", "9", "7", "6", "9", "3", "1", "3", "4", "8", "6", "3">>,
      <<"1", "7", "9", "7", "6", "9", "3", "1", "3", "4", "8", "7">>,
      <<"1", "7", "9", "7", "6", "9", "3", "1", "3", "4", "9">>,
      <<"1", "7", "9", "7", "6", "9", "3", "1", "3", "5">>,
      <<"1", "7", "9", "7", "6", "9", "3", "1", "4">>,
      <<"1", "7", "9", "7", "6", "9", "3", "2">>,
      <<"1", "7", "9", "7", "6", "9", "4">>,
      <<"1", "7", "9", "7", "7", "0">>,
      <<"1", "7", "9", "7", "7">>,
      <<"1", "7", "9", "8">>,
      <<"1", "8", "0">>,
      <<"1", "8">>,
      <<"2">>>>

\* f64_from_parts: the significand times ten to the exponent is a finite
\* f64. serde_json gives "number out of range" when it is not, and for every
\* exponent above 308 unless the significand is zero.
Finite(sig, exponent) ==
    \/ exponent < 0
    \/ sig = <<>>
    \/ /\ exponent <= 308
       /\ (exponent < 289 \/ Less(sig, InfiniteFrom[exponent - 288]))

\* The character at q is one of cs.
At(s, q, cs) == q <= Len(s) /\ s[q] \in cs

\* A number from the sign or digit at p, read as serde_json reads it: an
\* integer part without a leading zero, a fraction and an exponent, each with
\* a digit at least. The digits of the integer part and of the fraction go
\* into the significand as long as it stays in a u64; every digit of the
\* integer part that is left out adds one to the exponent, every digit of the
\* fraction that is taken subtracts one.
ParseNumber(s, p) ==
    LET Number(q) == Parsed(JOther(SubSeq(s, p, q - 1)), q)
        Float(sig, exponent, q) == IF Finite(sig, exponent) THEN Number(q) ELSE ParseFail
        ExpDigits(sig, start, positive_exp, exp, q4) ==
            IF exp = NoIndex
            THEN IF sig # <<>> /\ positive_exp THEN ParseFail ELSE Number(q4)
            ELSE Float(sig, IF positive_exp THEN SaturatingAdd(start, exp)
                            ELSE SaturatingSub(start, exp), q4)
        Exponent(sig, start, positive_exp, q3, q4) ==
            IF q4 = q3 THEN ParseFail
            ELSE ExpDigits(sig, start, positive_exp, ExpValue(SubSeq(s, q3, q4 - 1)), q4)
        ExpSign(sig, start, positive_exp, q3) ==
            Exponent(sig, start, positive_exp, q3, DigitsEnd(s, q3))
        After(sig, exponent, q2) ==
            IF At(s, q2, {"e", "E"})
            THEN ExpSign(sig, exponent, ~At(s, q2 + 1, {"-"}),
                         IF At(s, q2 + 1, {"+", "-"}) THEN q2 + 2 ELSE q2 + 1)
            ELSE Float(sig, exponent, q2)
        Fraction(sig, start, ds, k, q2) == After(With(sig, ds, k), start - k, q2)
        Decimal(sig, start, q1, q2) ==
            IF q2 = q1 + 1 THEN ParseFail
            ELSE Fraction(sig, start, SubSeq(s, q1 + 1, q2 - 1),
                          Taken(sig, SubSeq(s, q1 + 1, q2 - 1)), q2)
        Point(sig, start, q1) ==
            IF At(s, q1, {"."}) THEN Decimal(sig, start, q1, DigitsEnd(s, q1 + 1))
            ELSE After(sig, start, q1)
        Long(ds, k, q1) == Point(SubSeq(ds, 1, k), Len(ds) - k, q1)
        Integer(q0, q1) ==
            IF s[q0] = "0"
            THEN IF At(s, q0 + 1, Digits) THEN ParseFail ELSE Point(<<>>, 0, q0 + 1)
            ELSE Long(SubSeq(s, q0, q1 - 1), Taken(<<>>, SubSeq(s, q0, q1 - 1)), q1)
        Sign(q0) == IF ~At(s, q0, Digits) THEN ParseFail ELSE Integer(q0, DigitsEnd(s, q0))
    IN Sign(IF s[p] = "-" THEN p + 1 ELSE p)

\* null, true or false at p.
Literals == {<<"n", "u", "l", "l">>, <<"t", "r", "u", "e">>, <<"f", "a", "l", "s", "e">>}

ParseLiteral(s, p) ==
    LET here == {w \in Literals : SubSeq(s, p, Min(Len(s), p + Len(w) - 1)) = w}
        Literal(w) == Parsed(JOther(w), p + Len(w))
    IN IF here = {} THEN ParseFail ELSE Literal(CHOOSE w \in here : TRUE)

\* serde_json reads arrays and objects nested up to this depth, not included.
RecursionLimit == 128

RECURSIVE ParseValue(_, _, _), ParseElements(_, _, _, _), ParseMembers(_, _, _, _)

\* The JSON value that starts at or after p, and the position after it;
\* `remaining` is the depth left for arrays and objects.
ParseValue(s, p, remaining) ==
    LET Value(q) ==
            IF q > Len(s) THEN ParseFail
            ELSE IF s[q] = Quote THEN ParseString(s, q)
            ELSE IF s[q] \in {"[", "{"}
                 THEN IF remaining - 1 = 0 THEN ParseFail
                      ELSE IF s[q] = "[" THEN ParseElements(s, q + 1, <<>>, remaining - 1)
                      ELSE ParseMembers(s, q + 1, <<>>, remaining - 1)
            ELSE IF s[q] \in Digits \cup {"-"} THEN ParseNumber(s, q)
            ELSE ParseLiteral(s, q)
    IN Value(SkipJsonWs(s, p))

\* The rest of an array whose elements so far are acc.
ParseElements(s, p, acc, remaining) ==
    LET Separator(elems, q) ==
            IF q > Len(s) THEN ParseFail
            ELSE IF s[q] = "," THEN ParseElements(s, q + 1, elems, remaining)
            ELSE IF s[q] = "]" THEN Parsed(JArray(elems), q + 1)
            ELSE ParseFail
        Element(r) == IF r.ok THEN Separator(Append(acc, r.v), SkipJsonWs(s, r.next)) ELSE ParseFail
        Elements(q) ==
            IF q > Len(s) THEN ParseFail
            ELSE IF acc = <<>> /\ s[q] = "]" THEN Parsed(JArray(<<>>), q + 1)
            ELSE Element(ParseValue(s, q, remaining))
    IN Elements(SkipJsonWs(s, p))

\* The rest of an object whose members so far are acc.
ParseMembers(s, p, acc, remaining) ==
    LET Separator(members, q) ==
            IF q > Len(s) THEN ParseFail
            ELSE IF s[q] = "," THEN ParseMembers(s, q + 1, members, remaining)
            ELSE IF s[q] = "}" THEN Parsed(JObject(members), q + 1)
            ELSE ParseFail
        Value(k, r) ==
            IF r.ok
            THEN Separator(Append(acc, [key |-> k.v.v, value |-> r.v]), SkipJsonWs(s, r.next))
            ELSE ParseFail
        Colon(k, q) ==
            IF q > Len(s) THEN ParseFail
            ELSE IF s[q] # ":" THEN ParseFail
            ELSE Value(k, ParseValue(s, q + 1, remaining))
        Key(k) == IF k.ok THEN Colon(k, SkipJsonWs(s, k.next)) ELSE ParseFail
        Members(q) ==
            IF q > Len(s) THEN ParseFail
            ELSE IF acc = <<>> /\ s[q] = "}" THEN Parsed(JObject(<<>>), q + 1)
            ELSE IF s[q] # Quote THEN ParseFail
            ELSE Key(ParseString(s, q))
    IN Members(SkipJsonWs(s, p))

\* serde_json::from_str::<Value>: one value, nothing but whitespace after it.
FromStr(s) ==
    LET End(r) == IF r.ok /\ SkipJsonWs(s, r.next) > Len(s) THEN Some(r.v) ELSE None
    IN End(ParseValue(s, 1, RecursionLimit))

\* v["translations"]: the value of the member, the last one of that name.
TranslationsKey == <<"t", "r", "a", "n", "s", "l", "a", "t", "i", "o", "n", "s">>

Member(v, key) ==
    IF v.type = "object" /\ \E m \in 1..Len(v.v) : v.v[m].key = key
    THEN LET m == CHOOSE m \in 1..Len(v.v) :
                      v.v[m].key = key /\ \A m2 \in (m + 1)..Len(v.v) : v.v[m2].key # key
         IN Some(v.v[m].value)
    ELSE None

\* `x.as_str().unwrap_or("").to_string()`
AsStrOrEmpty(x) == IF x.type = "string" THEN x.v ELSE <<>>

\* The prefixes and the suffix try_parse_translations_json strips.
FenceJsonLower == Fence \o <<"j", "s", "o", "n">>
FenceJsonUpper == Fence \o <<"J", "S", "O", "N">>
FenceParen == Fence \o <<")", " ">>

StripFence(trimmed) ==
    Trim(TrimEndMatches(
            TrimStartMatches(
                TrimStartMatches(
                    TrimStartMatches(
                        TrimStartMatches(trimmed, FenceJsonLower),
                        FenceJsonUpper),
                    FenceParen),
                Fence),
            Fence))

try_parse_translations_json(s) ==
    LET Candidate(trimmed) ==
            IF StartsWith(trimmed, Fence) THEN StripFence(trimmed) ELSE trimmed
        Translations(json) == IF json.some THEN Member(json.v, TranslationsKey) ELSE None
        Strings(arr) ==
            IF arr.some /\ arr.v.type = "array"
            THEN Some([k \in 1..Len(arr.v.v) |-> AsStrOrEmpty(arr.v.v[k])])
            ELSE None
    IN Strings(Translations(FromStr(Candidate(Trim(s)))))

\* The loop of extract_first_json_object from byte p (1-based) on, with the
\* depth and the start (1-based) it has there.
RECURSIVE ScanBraces(_, _, _, _)
ScanBraces(s, p, depth, start) ==
    IF p > Len(s) THEN None
    ELSE IF s[p] = "{"
         THEN ScanBraces(s, p + 1, depth + 1, IF depth = 0 THEN Some(p) ELSE start)
    ELSE IF s[p] = "}"
         THEN IF depth - 1 = 0 /\ start.some
              THEN Some(SubSeq(s, start.v, p))
              ELSE ScanBraces(s, p + 1, depth - 1, start)
    ELSE ScanBraces(s, p + 1, depth, start)

extract_first_json_object(s) == ScanBraces(s, 1, 0, None)

\* The replies parsed: an array of at most MaxItems strings, as a JSON object
\* in one of the forms a model gives it.
Items == {<<"a">>, <<"b">>, <<"}">>, <<Quote, Tab>>}
ItemArrays == UNION {[1..n -> Items] : n \in 0..MaxItems}

\* A string as JSON text: in quotes, the quote, the backslash and the control
\* characters escaped.
RECURSIVE JsonEscaped(_)
JsonEscaped(x) ==
    IF Len(x) = 0 THEN <<>>
    ELSE (CASE Head(x) \in {Quote, Backslash} -> <<Backslash, Head(x)>>
            [] Head(x) = Newline -> <<Backslash, "n">>
            [] Head(x) = Tab -> <<Backslash, "t">>
            [] Head(x) = CarriageReturn -> <<Backslash, "r">>
            [] OTHER -> <<Head(x)>>) \o JsonEscaped(Tail(x))

JsonString(x) == <<Quote>> \o JsonEscaped(x) \o <<Quote>>

RECURSIVE JsonStrings(_)
JsonStrings(arr) ==
    IF Len(arr) = 0 THEN <<>>
    ELSE IF Len(arr) = 1 THEN JsonString(arr[1])
    ELSE JsonString(arr[1]) \o <<",">> \o JsonStrings(Tail(arr))

\* {"translations":["a","b"]}
CleanJson(arr) ==
    <<"{">> \o JsonString(TranslationsKey) \o <<":", "[">> \o JsonStrings(arr) \o <<"]", "}">>

\* The same object over several lines.
PrettyJson(arr) ==
    <<"{", Newline, " ", " ">> \o JsonString(TranslationsKey) \o <<":", " ", "[">>
        \o JsonStrings(arr) \o <<"]", Newline, "}">>

\* The same object over several lines that end in CR LF, indented by a tab.
CrLf == <<CarriageReturn, Newline>>

TabbedJson(arr) ==
    <<"{">> \o CrLf \o <<Tab>> \o JsonString(TranslationsKey) \o <<":", Tab, "[">>
        \o JsonStrings(arr) \o <<"]">> \o CrLf \o <<"}">> \o CrLf

\* The object in a fenced block with a language tag, possibly none, the lines
\* ending in nl.
FencedJson(tag, arr, nl) == Fence \o tag \o nl \o CleanJson(arr) \o nl \o Fence

ProseBefore == <<"R", "e", "s", "u", "l", "t", ":", Newline>>
ProseAfter == <<Newline, "T", "h", "a", "n", "k", "s">>

Forms ==
    {[kind |-> k, tag |-> <<>>] :
        k \in {"clean", "pretty", "tabbed", "before", "after", "around"}}
        \cup {[kind |-> "fenced", tag |-> t] :
                 t \in {<<>>, <<"j", "s", "o", "n">>, <<"J", "S", "O", "N">>}}
        \cup {[kind |-> "fenced_crlf", tag |-> <<"j", "s", "o", "n">>]}

Content(form, arr) ==
    CASE form.kind = "clean" -> CleanJson(arr)
      [] form.kind = "pretty" -> PrettyJson(arr)
      [] form.kind = "tabbed" -> TabbedJson(arr)
      [] form.kind = "fenced" -> FencedJson(form.tag, arr, <<Newline>>)
      [] form.kind = "fenced_crlf" -> FencedJson(form.tag, arr, CrLf)
      [] form.kind = "before" -> ProseBefore \o CleanJson(arr)
      [] form.kind = "after" -> CleanJson(arr) \o ProseAfter
      [] form.kind = "around" -> ProseBefore \o CleanJson(arr) \o ProseAfter

\* translate_batch after the retry loop: `try_parse_translations_json(content)`.
ParseContent ==
    /\ parsed.state = "content"
    /\ LET Go(v) == IF v.some THEN [state |-> "ok", v |-> v.v]
                     ELSE [state |-> "braces", v |-> <<>>]
       IN parsed' = Go(try_parse_translations_json(reply.content))
    /\ UNCHANGED <<pc, audio, chunk_seconds, batch_size, sttVars, trVars, resp, err, written,
                   histVars, trHistVars, inflight, reply, service>>

\* translate_batch: "Fallback: try to slice out the first {...} block".
ParseBraces ==
    /\ parsed.state = "braces"
    /\ LET AndThen(obj) == IF obj.some THEN try_parse_translations_json(obj.v) ELSE None
           Go(v) == IF v.some THEN [state |-> "ok", v |-> v.v]
                     ELSE [state |-> "err", v |-> <<>>]
       IN parsed' = Go(AndThen(extract_first_json_object(reply.content)))
    /\ UNCHANGED <<pc, audio, chunk_seconds, batch_size, sttVars, trVars, resp, err, written,
                   histVars, trHistVars, inflight, reply, service>>

NextParse == ParseContent \/ ParseBraces

\* The parsing chain of translate_batch alone, on the replies above.
InitParse ==
    /\ InitWith("start", {<<>>}, {600}, {MaxBatch})
    /\ \E arr \in ItemArrays, form \in Forms :
        reply = [items |-> arr, form |-> form, content |-> Content(form, arr)]
    /\ parsed = [state |-> "content", v |-> <<>>]
    /\ service = NoService

SpecParse == InitParse /\ [][NextParse]_vars

\* The texts searched: braces and another character, in every arrangement.
BraceChars == {"{", "}", "a"}
BraceTexts == UNION {[1..n -> BraceChars] : n \in 0..MaxText}

\* `extract_first_json_object(content)` on its own: the text found, if any.
ExtractObject ==
    /\ parsed.state = "text"
    /\ parsed' = [state |-> "extracted", v |-> extract_first_json_object(reply.content)]
    /\ UNCHANGED <<pc, audio, chunk_seconds, batch_size, sttVars, trVars, resp, err, written,
                   histVars, trHistVars, inflight, reply, service>>

\* extract_first_json_object alone, on the texts above.
InitExtract ==
    /\ InitWith("start", {<<>>}, {600}, {MaxBatch})
    /\ \E text \in BraceTexts :
        reply = [items |-> <<>>, form |-> [kind |-> "text", tag |-> <<>>], content |-> text]
    /\ parsed = [state |-> "text", v |-> None]
    /\ service = NoService

SpecExtract == InitExtract /\ [][ExtractObject]_vars

\* ================================================================= claims
\* translate_lines_zh_tw has returned Ok(result) to main.
Translated == pc \in {"write", "done"}

\* What the single-line fallback can return for a line: the cleaned content
\* of one of its replies.
SingleResults(text) == {Cleaned(c) : c \in SingleContents(text)}

\* Line k (1-based) of the result is what a bulk call or the fallback gave
\* for line k of the input.
Aligned(k) == result[k] \in {BulkTr(ja_lines[k])} \cup SingleResults(ja_lines[k])

\* Line k of the result came from the single-line fallback.
BySingle(k) == result[k] \in SingleResults(ja_lines[k])

\* C1: for a non-empty line list and a batch size >= 1, a successful
\* translate_lines_zh_tw returns as many entries as there are lines, entry k
\* being the translation obtained for line k, however it was obtained.
C1_ResultAligned ==
    (Translated /\ batch_size >= 1 /\ Len(ja_lines) > 0) =>
        /\ Len(result) = Len(ja_lines)
        /\ \A k \in 1..Len(ja_lines) : Aligned(k)

\* A run of MaxLines lines in one window that needed a bisection, with one
\* line from a bulk call and one from the fallback.
C1_Witness ==
    /\ Translated
    /\ batch_size = Len(ja_lines)
    /\ Len(ja_lines) = MaxLines
    /\ rootLen # Len(ja_lines)
    /\ \E k, m \in 1..Len(result) : result[k] = BulkTr(ja_lines[k]) /\ BySingle(m)

\* C2 as stated, for a list L that is not empty: if every bulk call returned
\* an array of the wrong length, every line is resolved by the fallback and
\* at most 2*len(L) - 1 calls are made in all.
C2_Original ==
    (Translated /\ onlyMismatch /\ Len(ja_lines) > 0) =>
        /\ \A k \in 1..Len(ja_lines) : BySingle(k)
        /\ calls.bulk + calls.single <= 2 * Len(ja_lines) - 1

\* For an empty list no call is made. For a list L that is not empty, while
\* every bulk call so far returned an array of the wrong length: at most
\* 2*len(L) - 1 bulk calls and len(L) fallback calls are made, 3*len(L) - 1
\* calls in all, and a finished translation has every line from the fallback,
\* one fallback call per line.
C2_Bounds ==
    /\ Len(ja_lines) = 0 => calls.bulk + calls.single = 0
    /\ (onlyMismatch /\ Len(ja_lines) > 0) =>
        /\ calls.bulk <= 2 * Len(ja_lines) - 1
        /\ calls.single <= Len(ja_lines)
        /\ calls.bulk + calls.single <= 3 * Len(ja_lines) - 1
        /\ Translated =>
            /\ Len(result) = Len(ja_lines)
            /\ \A k \in 1..Len(ja_lines) : BySingle(k)
            /\ calls.single = Len(ja_lines)

\* translate_lines_zh_tw has returned, with the result or with an error.
Terminated == Translated \/ pc = "failed"

\* C2 (amended): the bounds above hold throughout, and the run terminates.
C2_TerminatesWithinBounds == []C2_Bounds /\ <>Terminated

\* A finished translation of MaxCallLines lines in one window in which every
\* bulk call returned an array of the wrong length.
C2_Witness ==
    /\ Translated
    /\ onlyMismatch
    /\ Len(ja_lines) = MaxCallLines
    /\ batch_size = MaxCallLines
    /\ calls.bulk = 2 * MaxCallLines - 1
    /\ calls.single = MaxCallLines

\* The scenario of C3: two lines, batch size 2, and the bulk call for both
\* lines returned an array of one element.
C3_Scenario == Len(ja_lines) = 2 /\ batch_size = 2 /\ rootLen = 1

\* C3 as stated: in the scenario each of the two lines is resolved by a
\* single-line fallback call.
C3_Original ==
    (C3_Scenario /\ Translated) => (BySingle(1) /\ BySingle(2))

\* C3 (amended): in the scenario the window is split into [0,1) and [1,2),
\* left half on top; each half gets a bulk call of its own and goes to the
\* fallback only when that call fails; the output has two entries, entry k for
\* line k.
C3_BisectThenPerLine ==
    C3_Scenario =>
        /\ (pc = "pop" /\ range = <<0, 2>>) => stack = <<<<1, 2>>, <<0, 1>>>>
        /\ Translated =>
            /\ Len(result) = 2
            /\ Aligned(1) /\ Aligned(2)
            /\ calls.bulk = 3
            /\ calls.single = Cardinality({k \in 1..2 : BySingle(k)})

\* The scenario ended with the first line from its own bulk call and the
\* second from the fallback.
C3_Witness ==
    /\ C3_Scenario
    /\ pc = "done"
    /\ result[1] = BulkTr(ja_lines[1])
    /\ BySingle(2)

RequestPcs == {"stt", "bulk", "single"}
BodyPcs == {"stt_body", "bulk_body", "single_body"}
SleepPcs == {"stt_sleep", "bulk_sleep", "single_sleep"}
ReturnPcs == {"bulk_ret", "single_ret"}

\* The latest answer the current retry loop got is an error.
ErrorSeen == lastResp.site # "none" /\ lastResp.status # 200

\* The error e is the one the latest response carried.
IsLastError(e) == e.status = lastResp.status /\ e.body = lastResp.body

\* C4: one retry loop sends at most 5 requests, each but the first after a
\* transient failure and a sleep; the 5th consecutive transient failure ends
\* the call with that failure's error, without a 5th sleep; a success ends the
\* call with the result of the successful request.
C4_AtMostFiveRequests ==
    /\ reqs <= 5
    /\ pc \in RequestPcs => (reqs <= 4 /\ attempt = reqs /\ Len(delays) = reqs)
    /\ pc \in BodyPcs => (reqs >= 1 /\ attempt = reqs - 1 /\ Len(delays) = reqs - 1)
    /\ pc \in SleepPcs =>
        (lastResp.transient /\ reqs <= 4 /\ attempt = reqs /\ Len(delays) = reqs - 1)
    /\ (reqs = 5 /\ lastResp.transient) =>
        /\ Len(delays) = 4
        /\ pc \in {"failed"} \cup ReturnPcs
        /\ pc = "failed" => IsLastError(err)
        /\ pc \in ReturnPcs => (~ret.ok /\ IsLastError(ret.e))
    /\ (lastResp.site # "none" /\ lastResp.status = 200) =>
        pc \notin RequestPcs \cup BodyPcs \cup SleepPcs
    /\ (pc \in ReturnPcs /\ ret.ok) => (lastResp.status = 200 /\ Len(delays) = reqs - 1)

\* translate_batch has given up after five transient failures and four sleeps.
C4_Witness ==
    /\ pc = "bulk_ret"
    /\ reqs = 5
    /\ lastResp.transient
    /\ ~ret.ok
    /\ Len(delays) = 4

\* C5: the n-th sleep of a retry loop lasts 2^n seconds: the sleeps are
\* 2, 4, 8, 16 seconds in this order and there is no fifth.
C5_BackoffDelays ==
    /\ Len(delays) <= 4
    /\ delays = SubSeq(<<2000, 4000, 8000, 16000>>, 1, Len(delays))

\* The single-line fallback is about to send its fifth request.
C5_Witness == pc = "single" /\ Len(delays) = 4 /\ delays[4] = 16000

\* C6 as stated: at every call site an error response is retried exactly when
\* its status is 429 or 5xx.
C6_Classification ==
    (ErrorSeen /\ lastResp.status # 0) =>
        (lastResp.transient <=> (lastResp.status = 429 \/ lastResp.status \in 500..599))

\* An error the call site classified terminal.
TerminalSeen == ErrorSeen /\ ~lastResp.transient

\* C7 as stated: at every call site a terminal error is the failure of the
\* run at once.
C7_Original == [][TerminalSeen => pc' = "failed"]_vars

\* A terminal error ends its retry loop without a sleep or a further request
\* of that loop; the transcription and the fallback fail the run with it,
\* translate_batch returns it.
C7_NoRetry ==
    TerminalSeen =>
        /\ pc \notin RequestPcs \cup BodyPcs \cup SleepPcs
        /\ lastResp.site = "stt" => (pc = "failed" /\ IsLastError(err))
        /\ lastResp.site = "single" =>
            /\ pc \in {"single_ret", "failed"}
            /\ ~ret.ok /\ IsLastError(ret.e)
            /\ pc = "failed" => err = ret.e
        /\ lastResp.site = "bulk" => (pc = "bulk_ret" /\ ~ret.ok /\ IsLastError(ret.e))

\* C7 (amended): the above, and an error returned by translate_batch does not
\* fail the run: translate_batch_strict goes on with the halves of the range
\* or with the single-line fallback.
C7_TerminalNotRetried ==
    /\ []C7_NoRetry
    /\ [][(pc = "bulk_ret" /\ ~ret.ok) => pc' \in {"pop", "single"}]_vars

\* translate_batch has returned a 401 after one request.
C7_Witness ==
    /\ pc = "bulk_ret"
    /\ lastResp = Resp("bulk", 401, EmptyBody, FALSE)
    /\ reqs = 1
    /\ ~ret.ok

\* The errors of main's output steps.
OutputErrorKinds == {f.kind : f \in OutputFailures}

\* The run failed inside translate_lines_zh_tw: after main had made ja_lines,
\* and neither in main's count check nor in its output steps.
TranslationFailed ==
    /\ pc = "failed"
    /\ Len(ja_lines) > 0
    /\ err.kind \notin {"count_mismatch"} \cup OutputErrorKinds

SingleErrorKinds == {"single_request", "single_status", "single_json"}

\* C8: translate_lines_zh_tw fails only with the error a single-line fallback
\* call returned; no outcome of a bulk call fails it.
C8_OnlyFallbackFails ==
    TranslationFailed =>
        /\ err.kind \in SingleErrorKinds
        /\ lastResp.site = "single"
        /\ ~ret.ok
        /\ err = ret.e

\* The fallback failed for a line of a split window, after another line had
\* been translated.
C8_Witness ==
    /\ TranslationFailed
    /\ err.kind = "single_status"
    /\ Len(batch) > 1
    /\ \E k \in 1..Len(out) : out[k].some

\* C9 as stated: when the fallback for a line fails, the error the run ends
\* with carries the line's index in the full line list.
C9_ErrorNamesLine ==
    (pc = "failed" /\ err.kind \in SingleErrorKinds) => err.index = idx + range[1]

\* Number of segments in the chunks before chunk k (0-based).
RECURSIVE SegsBefore(_)
SegsBefore(k) == IF k = 0 THEN 0 ELSE SegsBefore(k - 1) + Len(audio[k])

\* C10: the merged list holds the segments of the chunks done so far, chunk
\* after chunk, each segment of chunk k (0-based) with its local start and
\* end plus k * chunk_seconds, start <= end.
C10_OffsetByChunk ==
    /\ Len(all) = SegsBefore(i)
    /\ \A k \in 0..(i - 1) : \A j \in 1..Len(audio[k + 1]) :
        LET s == all[SegsBefore(k) + j]
        IN /\ s.text = <<k, j>>
           /\ s.start = audio[k + 1][j].start + k * chunk_seconds
           /\ s.end = audio[k + 1][j].end + k * chunk_seconds
           /\ s.start <= s.end

\* Three chunks of 600 seconds are merged, the last segment from chunk 2,
\* 1200 seconds after its local times.
C10_Witness ==
    /\ pc = "main"
    /\ chunk_seconds = 600
    /\ Len(audio) = 3
    /\ Len(audio[3]) > 0
    /\ all[Len(all)].text[1] = 2
    /\ all[Len(all)].start = audio[3][Len(audio[3])].start + 1200
    /\ all[Len(all)].end = audio[3][Len(audio[3])].end + 1200

\* The reply for chunk k (0-based) is ordered by start time and local to the
\* chunk: every start lies within the chunk_seconds the chunk lasts.
OrderedLocal(k) ==
    /\ \A j \in 1..(Len(audio[k + 1]) - 1) :
        audio[k + 1][j].start <= audio[k + 1][j + 1].start
    /\ \A j \in 1..Len(audio[k + 1]) :
        audio[k + 1][j].start >= 0 /\ audio[k + 1][j].start <= chunk_seconds

\* C11: when the reply of every chunk merged so far is ordered by start time
\* and local to its chunk, the starts of the merged list are non-decreasing,
\* across the chunk boundaries too; the list is never sorted.
C11_MonotoneStarts ==
    (\A k \in 0..(i - 1) : OrderedLocal(k)) =>
        \A m \in 1..(Len(all) - 1) : all[m].start <= all[m + 1].start

\* The merged list is returned with a chunk boundary at which the start does
\* not grow: chunk 0 ends with a segment at its very end, chunk 1 begins with
\* one at its very beginning.
C11_Witness ==
    /\ pc = "main"
    /\ \A k \in 0..(i - 1) : OrderedLocal(k)
    /\ \E m \in 1..(Len(all) - 1) :
        /\ all[m].text[1] = 0
        /\ all[m + 1].text[1] = 1
        /\ all[m].start = chunk_seconds
        /\ all[m + 1].start = chunk_seconds

\* C12 as stated: a chunk whose successful reply has no segment, the list
\* absent or empty, ends the run with an error naming the chunk: no chunk
\* counted as merged has zero segments, and after the error no later chunk is
\* transcribed and no translation call is made.
C12_EmptyChunkFatal ==
    /\ \A k \in 0..(i - 1) : Len(audio[k + 1]) > 0
    /\ err.kind = "stt_no_segments" =>
        (pc = "failed" /\ err.index = i /\ calls = NoCalls)

\* The positions inside translate_lines_zh_tw.
TranslatePcs ==
    {"lines", "window", "pop", "bulk", "bulk_body", "bulk_sleep", "bulk_ret", "single",
     "single_body", "single_sleep", "single_ret", "collect"}

\* Every chunk has been transcribed and the merged list is empty.
MergedEmpty == Len(audio) > 0 /\ i = Len(audio) /\ Len(all) = 0

\* C13: with the merged list of all chunks empty the run fails with the
\* zero-segments error; no translation call has been made and nothing has been
\* written, and the translation and the writing are never reached.
C13_NoSegmentsFails ==
    MergedEmpty =>
        /\ pc \in {"chunk", "main", "failed"}
        /\ pc = "failed" => err.kind = "zero_segments"
        /\ calls = NoCalls
        /\ ja_lines = <<>>
        /\ written = {}

\* MaxChunks chunks were transcribed, each with an empty segment list, and
\* the run has failed with the zero-segments error.
C13_Witness ==
    /\ pc = "failed"
    /\ err.kind = "zero_segments"
    /\ Len(audio) = MaxChunks
    /\ i = MaxChunks
    /\ lastResp.status = 200

\* C14: a file is written only when every chunk has been transcribed and
\* every line translated, and after that the run can fail in an output step
\* only; a run that failed before, in the transcription or in the
\* translation or in any other way, has written nothing.
C14_NoOutputOnError ==
    /\ written # {} =>
        /\ pc \in {"done", "failed"}
        /\ pc = "failed" => err.kind \in OutputErrorKinds
        /\ i = Len(audio)
        /\ Len(all) = SegsBefore(Len(audio))
        /\ Len(ja_lines) = Len(all)
        /\ Len(result) = Len(ja_lines)
        /\ \A k \in 1..Len(ja_lines) : Aligned(k)
    /\ (pc = "failed" /\ err.kind \notin OutputErrorKinds) => written = {}

\* The run failed in the translation of the second window, after the first
\* window had been translated, and nothing is written.
C14_Witness ==
    /\ pc = "failed"
    /\ err.kind \in SingleErrorKinds
    /\ Len(result) > 0
    /\ idx > 0
    /\ written = {}

\* C15: at most one request or sleep is in progress at any moment: while a
\* request is awaited (its sending, then the reading of the response's body)
\* nothing else is, while the code sleeps no request is out, and between the calls nothing is in progress, so that a request is
\* sent only when the request before it has completed and the sleep after
\* that one has ended.
C15_OneAtATime ==
    /\ Len(inflight) <= 1
    /\ pc = "stt" => inflight = <<"stt">>
    /\ pc = "bulk" => inflight = <<"bulk">>
    /\ pc = "single" => inflight = <<"single">>
    /\ pc \in BodyPcs => inflight = <<"body">>
    /\ pc \in SleepPcs => inflight = <<"sleep">>
    /\ pc \notin RequestPcs \cup BodyPcs \cup SleepPcs => inflight = <<>>

\* The fallback of a later line sleeps before its second request, after
\* transcription requests, bulk calls and an earlier fallback call.
C15_Witness ==
    /\ pc = "single_sleep"
    /\ inflight = <<"sleep">>
    /\ reqs = 1
    /\ i = MaxChunks
    /\ calls.bulk >= 2
    /\ calls.single >= 2

\* The slots (1-based) of the popped range.
RangeSlots == (range[1] + 1)..range[2]

\* A step of translate_batch_strict that writes slots: a bulk array of the
\* right length has come back, or a fallback translation.
WritesSlots ==
    \/ pc = "bulk_ret" /\ ret.ok /\ Len(ret.v) = range[2] - range[1]
    \/ pc = "single_ret" /\ ret.ok

\* C16: in the bisection loop of translate_batch_strict a step that writes
\* slots writes exactly the slots of the popped range, all of them empty
\* before and filled after; every other slot, and every slot in every other
\* step of the loop, stays as it is, so a filled slot is never written again
\* or emptied by a bulk success, a bulk failure or a fallback. The call returns
\* its result only when the loop has left every slot filled, and the result is
\* the slots' values, moved out of them in order.
C16_SlotsFilledOnce ==
    [][/\ pc \notin {"window", "collect"} =>
            /\ Len(out') = Len(out)
            /\ \A k \in 1..Len(out) :
                IF WritesSlots /\ k \in RangeSlots
                THEN ~out[k].some /\ out'[k].some
                ELSE out'[k] = out[k]
       /\ (pc = "collect" /\ pc' = "window") =>
            /\ \A k \in 1..Len(out) : out[k].some
            /\ result' = result \o [k \in 1..Len(out) |-> out[k].v]]_vars

\* A window of MaxLines lines is complete, its slots filled in different
\* steps: one by a bulk call on a part of the window, one by the fallback.
C16_Witness ==
    /\ pc = "collect"
    /\ Len(out) = MaxLines
    /\ rootLen # NoIndex /\ rootLen # MaxLines
    /\ \A k \in 1..Len(out) : out[k].some
    /\ \E k, m \in 1..Len(out) :
        out[k].v = BulkTr(batch[k]) /\ out[m].v = SingleTr(batch[m])

\* The positions of the bisection loop of translate_batch_strict: its head,
\* and the handling of the popped range.
HandlingPcs ==
    {"bulk", "bulk_body", "bulk_sleep", "bulk_ret", "single", "single_body", "single_sleep",
     "single_ret"}
LoopPcs == {"pop", "collect"} \cup HandlingPcs

\* Line k (0-based) of the window lies in the range r.
InRange(k, r) == r[1] <= k /\ k < r[2]

\* In how many ways line k (0-based) of the window is accounted for: the
\* ranges on the stack that hold it, the popped range while it is being
\* handled, and its slot if filled.
Accounted(k) ==
    Cardinality({p \in 1..Len(stack) : InRange(k, stack[p])})
        + (IF pc \in HandlingPcs /\ InRange(k, range) THEN 1 ELSE 0)
        + (IF out[k + 1].some THEN 1 ELSE 0)

\* C17: throughout the bisection loop of a window of n lines every line is
\* accounted for exactly once: it lies in exactly one pending range (on the
\* stack, or popped and being handled) and its slot is empty, or in none and
\* its slot is filled; every pending range is a non-empty part of [0, n).
C17_StackPartition ==
    pc \in LoopPcs =>
        /\ Len(out) = Len(batch)
        /\ \A k \in 0..(Len(batch) - 1) : Accounted(k) = 1
        /\ \A p \in 1..Len(stack) :
            0 <= stack[p][1] /\ stack[p][1] < stack[p][2] /\ stack[p][2] <= Len(batch)
        /\ pc \in HandlingPcs => (0 <= range[1] /\ range[1] < range[2] /\ range[2] <= Len(batch))

\* At the head of the loop after two splits: two ranges are pending and the
\* first line of the window is already translated.
C17_Witness ==
    /\ pc = "pop"
    /\ Len(batch) = MaxLines
    /\ Len(stack) = 2
    /\ out[1].some
    /\ ~out[2].some

\* C18 as stated: whatever form the reply has, the clean object, the object
\* in a fenced block with or without a language tag, or the object with prose
\* before or after it, the parsing chain of translate_batch ends with the
\* array the object holds.
C18_SameArrayInEveryForm ==
    parsed.state \in {"ok", "err"} => parsed = [state |-> "ok", v |-> reply.items]

RangeLen(r) == r[2] - r[1]

RECURSIVE Sum(_)
Sum(f) == IF Len(f) = 0 THEN 0 ELSE f[1] + Sum(Tail(f))

\* A split: the two ranges it pushes are non-empty parts of the range that
\* was split, each strictly shorter than it.
C19_SplitShrinks ==
    (pc = "bulk_ret" /\ stack' # stack) =>
        /\ Len(stack') = Len(stack) + 2
        /\ SubSeq(stack', 1, Len(stack)) = stack
        /\ \A p \in (Len(stack) + 1)..(Len(stack) + 2) :
            /\ range[1] <= stack'[p][1] /\ stack'[p][2] <= range[2]
            /\ 0 < RangeLen(stack'[p]) /\ RangeLen(stack'[p]) < RangeLen(range)

\* The calls of one window of n lines: at most 2n - 1 bulk calls, at most n
\* fallback calls, at most one fallback call for any line.
C19_CallBounds ==
    pc \in LoopPcs =>
        /\ calls.wbulk <= 2 * Len(batch) - 1
        /\ Len(calls.wsingle) = Len(batch)
        /\ Sum(calls.wsingle) <= Len(batch)
        /\ \A k \in 1..Len(batch) : calls.wsingle[k] <= 1

\* C19: with every call of the service returning, the bisection loop of a
\* window ends, with all ranges handled or with the error of a fallback call;
\* every split pushes two non-empty ranges strictly shorter than the one
\* split; and the calls stay within the bounds above.
C19_BisectionTerminates ==
    /\ [][C19_SplitShrinks]_vars
    /\ []C19_CallBounds
    /\ (pc \in LoopPcs) ~> (pc \in {"collect", "failed"})

\* The loop of a window of MaxCallLines lines has ended after the most calls
\* there can be: 2n - 1 bulk calls and one fallback call for every line.
C19_Witness ==
    /\ pc = "collect"
    /\ Len(batch) = MaxCallLines
    /\ calls.wbulk = 2 * MaxCallLines - 1
    /\ \A k \in 1..Len(batch) : calls.wsingle[k] = 1

\* ceil(log2(n)) for n >= 1: the least k with 2^k >= n.
CeilLog2(n) == CHOOSE k \in 0..n : 2 ^ k >= n /\ \A j \in 0..(k - 1) : 2 ^ j < n

\* C20: throughout the bisection loop of a window of n lines the stack holds
\* at most ceil(log2(n)) + 1 ranges.
C20_StackDepth ==
    pc \in LoopPcs => Len(stack) <= CeilLog2(Len(batch)) + 1

\* A window of 4 lines with the bound met: after the splits of (0, 4) and
\* (0, 2) the stack holds (2, 4), (1, 2) and (0, 1).
C20_Witness ==
    /\ pc = "pop"
    /\ Len(batch) = 4
    /\ stack = <<<<2, 4>>, <<1, 2>>, <<0, 1>>>>

\* A split pushes the part from the midpoint start + len/2 on first and the
\* part before the midpoint on top of it.
C21_SplitLeftOnTop ==
    (pc = "bulk_ret" /\ stack' # stack) =>
        /\ pc' = "pop"
        /\ stack' = stack \o <<<<range[1] + ((range[2] - range[1]) \div 2), range[2]>>,
                               <<range[1], range[1] + ((range[2] - range[1]) \div 2)>>>>

\* While a call is made for a range, every line before the range is resolved
\* and no line from its start on is; the ranges still pending lie after it,
\* the nearer one the higher on the stack.
C21_CallsLeftToRight ==
    pc \in HandlingPcs =>
        /\ \A k \in 1..Len(out) : out[k].some <=> k <= range[1]
        /\ \A p \in 1..Len(stack) : range[2] <= stack[p][1]
        /\ \A p \in 1..(Len(stack) - 1) : stack[p + 1][2] <= stack[p][1]

\* C21: a failed range of more than one line is split at start + len/2 and
\* its left half is popped next; a call for any range, so for a right half, is
\* made only when every line before it is resolved, by a bulk call or, after
\* all the sub-splits, by the fallback, and no line after its start is.
C21_LeftHalfFirst ==
    /\ [][C21_SplitLeftOnTop]_vars
    /\ []C21_CallsLeftToRight

\* The bulk call for the right half (2, 4) of a window of 4 lines is out; the
\* left half was split again and its second line went to the fallback.
C21_Witness ==
    /\ pc = "bulk"
    /\ Len(batch) = 4
    /\ range = <<2, 4>>
    /\ out[1].some
    /\ out[2].some /\ out[2].v = SingleTr(batch[2])
    /\ calls.wbulk = 5

\* The three ways translate_batch fails to give the translations of the popped
\* range: a reply the parsing chain rejects, an array of another length than
\* the range, a failed call (no answer, an error status after the retries, a
\* body that is not JSON or has no content).
Unparseable == ~ret.ok /\ ret.e.kind = "bulk_unparseable"
WrongLength == ret.ok /\ Len(ret.v) # RangeLen(range)
CallFailed ==
    ~ret.ok /\ ret.e.kind \in {"bulk_request", "bulk_status", "bulk_json", "bulk_structure"}

\* What translate_batch_strict does with a failure: it writes no slot and does
\* not fail; a range of one line goes to the fallback, a longer one is
\* replaced on the stack by its two halves.
FailureHandled ==
    /\ out' = out
    /\ err' = err
    /\ result' = result
    /\ ret' = NoRet
    /\ IF RangeLen(range) = 1
       THEN /\ pc' = "single"
            /\ stack' = stack
       ELSE /\ pc' = "pop"
            /\ stack' = stack \o <<<<range[1] + (RangeLen(range) \div 2), range[2]>>,
                                   <<range[1], range[1] + (RangeLen(range) \div 2)>>>>

\* C23: an unparseable bulk reply, a reply of the wrong length and a failed
\* bulk call are handled alike: no slot is written, a range of more than one
\* line is split at its midpoint with both halves pushed, a range of one line
\* goes to the single-line fallback.
C23_FailuresAlike ==
    [][(pc = "bulk_ret" /\ (Unparseable \/ WrongLength \/ CallFailed)) => FailureHandled]_vars

\* An unparseable reply has come back for the second line of a window that
\* was split after a reply of the wrong length, the first line translated.
C23_Witness ==
    /\ pc = "bulk_ret"
    /\ Unparseable
    /\ range = <<1, 2>>
    /\ Len(batch) = 4
    /\ rootLen \notin {NoIndex, 4}
    /\ out[1].some
    /\ stack = <<<<2, 4>>>>

\* C28: when the stack of translate_batch_strict is empty and no fallback has
\* failed, at the head of the loop and in the collection after it, every slot
\* of the window is filled; so the run never ends with "Failed to translate
\* line i".
C28_NoEmptySlotAtEnd ==
    /\ (pc \in {"pop", "collect"} /\ stack = <<>>) =>
        /\ Len(out) = Len(batch)
        /\ \A k \in 1..Len(out) : out[k].some
    /\ pc = "collect" => stack = <<>>
    /\ err.kind # "line_missing"

\* The stack of a window of MaxLines lines has just become empty: the last
\* range handled was the last line alone, resolved by the fallback after the
\* bulk calls for (0, n) and for the parts holding that line had failed.
C28_Witness ==
    /\ pc = "pop"
    /\ stack = <<>>
    /\ Len(batch) = MaxLines
    /\ range = <<MaxLines - 1, MaxLines>>
    /\ out[MaxLines].v = SingleTr(batch[MaxLines])
    /\ out[1].v = BulkTr(batch[1])
    /\ calls.wsingle[MaxLines] = 1

\* A translation call has been made or is being made.
TranslationBegun == calls.bulk + calls.single > 0 \/ pc \in TranslatePcs \cup {"write", "done"}

\* Where the chunks and the windows stand: the merged list holds segments of
\* the chunks before chunk i only, in ascending chunk index; the translation
\* begins only when all chunks are transcribed; the result holds the lines
\* before idx, and the window being translated is the lines from idx on.
C26_InOrder ==
    /\ i <= Len(audio)
    /\ pc \in {"stt", "stt_body", "stt_sleep"} => (i < Len(audio) /\ ~TranslationBegun)
    /\ \A m \in 1..Len(all) : all[m].text[1] < i
    /\ \A m \in 1..(Len(all) - 1) : all[m].text[1] <= all[m + 1].text[1]
    /\ TranslationBegun => (i = Len(audio) /\ Len(all) = SegsBefore(Len(audio)))
    /\ pc \in TranslatePcs => Len(result) = idx
    /\ pc \in LoopPcs =>
        /\ idx < wend /\ wend <= Len(ja_lines)
        /\ batch = SubSeq(ja_lines, idx + 1, wend)

\* A step goes on with the same chunk or to the next one, and with the same
\* window or, when the window is complete, to the one that starts where it
\* ends.
C26_Advance ==
    /\ i' \in {i, i + 1}
    /\ idx' # idx => (pc = "collect" /\ idx' = wend /\ idx' > idx)

\* C26: the chunks are transcribed in ascending index and their segments
\* merged in this order, the windows are translated in ascending start index,
\* and no translation call is made before the last chunk is transcribed.
C26_AscendingOrder == []C26_InOrder /\ [][C26_Advance]_vars

\* The bulk call for the second window is out, after MaxChunks chunks with
\* segments were transcribed and merged and the first window translated.
C26_Witness ==
    /\ pc = "bulk"
    /\ Len(audio) = MaxChunks
    /\ i = MaxChunks
    /\ all[1].text[1] = 0
    /\ all[Len(all)].text[1] = MaxChunks - 1
    /\ idx > 0
    /\ Len(result) = idx
    /\ wend > idx

\* Opening braces less closing braces in s[p..q].
BraceDepth(s, p, q) ==
    Cardinality({r \in p..q : s[r] = "{"}) - Cardinality({r \in p..q : s[r] = "}"})

\* s[p..q] is a balanced brace-delimited substring: it begins with an opening
\* brace and ends with the closing brace that matches it.
BalancedAt(s, p, q) ==
    /\ p < q
    /\ s[p] = "{"
    /\ s[q] = "}"
    /\ BraceDepth(s, p, q) = 0
    /\ \A r \in p..(q - 1) : BraceDepth(s, p, r) > 0

HasBalanced(s) == \E p, q \in 1..Len(s) : BalancedAt(s, p, q)

\* The balanced substring that begins first.
FirstBalanced(s) ==
    LET p == CHOOSE p \in 1..Len(s) :
                 /\ \E q \in 1..Len(s) : BalancedAt(s, p, q)
                 /\ \A p2 \in 1..(p - 1) : \A q \in 1..Len(s) : ~BalancedAt(s, p2, q)
        q == CHOOSE q \in 1..Len(s) : BalancedAt(s, p, q)
    IN SubSeq(s, p, q)

\* C24 as stated: for a text with a balanced brace-delimited substring
\* extract_first_json_object returns the first one, from its opening brace to
\* the matching closing brace, and it returns nothing only for a text with
\* none.
C24_FirstBalancedObject ==
    parsed.state = "extracted" =>
        IF HasBalanced(reply.content)
        THEN parsed.v = Some(FirstBalanced(reply.content))
        ELSE parsed.v = None

\* With batch size 0 or 1: every window is one line, the one at idx, and it
\* is the (idx + 1)-th window; the result holds the lines before idx; on
\* return with Ok there have been as many windows as lines.
C27_OneLineWindows ==
    batch_size <= 1 =>
        /\ pc \in LoopPcs =>
            /\ idx < Len(ja_lines)
            /\ wend = idx + 1
            /\ batch = <<ja_lines[idx + 1]>>
            /\ calls.windows = idx + 1
        /\ pc = "window" => (calls.windows = idx /\ Len(result) = idx /\ idx <= Len(ja_lines))
        /\ pc = "write" => (calls.windows = Len(ja_lines) /\ Len(result) = Len(ja_lines))

\* An empty line list is returned as an empty result by the first step, and
\* no window is cut and no call made for it.
C27_EmptyList ==
    IsEmpty(ja_lines) =>
        /\ pc \in {"lines", "write"}
        /\ result = <<>>
        /\ calls = NoCalls
        /\ reqs = 0
        /\ inflight = <<>>

\* With batch size 0 the window is cut where batch size 1 cuts it, and a
\* completed window moves idx on by one line.
C27_SameAsOne ==
    /\ (batch_size = 0 /\ pc = "window" /\ pc' = "pop") =>
        /\ wend' = Min(idx + 1, Len(ja_lines))
        /\ batch' = SubSeq(ja_lines, idx + 1, idx + 1)
        /\ stack' = <<<<0, 1>>>>
    /\ (batch_size <= 1 /\ pc = "collect" /\ pc' = "window") => idx' = idx + 1

\* C27: translate_lines_zh_tw with batch size 0 does what it does with batch
\* size 1: every window holds one line, idx advances by one with every
\* window, the call returns after len(L) windows, and it always returns; an
\* empty list gives an empty result without any call.
C27_ZeroAsOne ==
    /\ []C27_OneLineWindows
    /\ []C27_EmptyList
    /\ [][C27_SameAsOne]_vars
    /\ <>Terminated

\* Batch size 0 and MaxCallLines lines: the call has returned all translations
\* after MaxCallLines windows of one line each.
C27_Witness ==
    /\ batch_size = 0
    /\ pc = "write"
    /\ Len(ja_lines) = MaxCallLines
    /\ calls.windows = MaxCallLines
    /\ Len(result) = MaxCallLines
    /\ calls.bulk = MaxCallLines

\* C25 as stated: the single-line fallback gives only non-empty text: it
\* never returns Ok with an empty string, so that no slot and no line of the
\* result is empty; a reply whose content is missing, empty, or empty once
\* whitespace and surrounding quotes are removed, is a failure.
C25_FallbackNonEmpty ==
    /\ (pc = "single_ret" /\ ret.ok) => ret.v # <<>>
    /\ \A k \in 1..Len(out) : out[k].some => out[k].v # <<>>
    /\ \A k \in 1..Len(result) : result[k] # <<>>

\* The other push order: the left half first, so the right half is on top.
PushRightOnTop(st, start, mid, end) == st \o <<<<start, mid>>, <<mid, end>>>>

\* What translate_batch_strict would return, and the calls it would have
\* made, in order.
Returned(r, made) == [ok |-> r.ok, v |-> r.v, e |-> r.e, made |-> made]

\* What translate_batch_strict would return, and the calls it would make,
\* were its halves pushed in the other order: its loop, from the stack st and
\* the slots o, with PushRightOnTop in the place of PushHalves, and the
\* collection after it.
RECURSIVE SwappedLoop(_, _, _, _)
SwappedLoop(svc, st, o, made) ==
    IF Len(st) = 0
    THEN IF FirstEmpty(o) # NoIndex
         THEN Returned(Err(Error("line_missing", 0, EmptyBody, FirstEmpty(o))), made)
         ELSE Returned(Ok([k \in 1..Len(o) |-> o[k].v]), made)
    ELSE LET start == st[Len(st)][1]
             end == st[Len(st)][2]
             len == end - start
             rest == SubSeq(st, 1, Len(st) - 1)
         IN IF len = 0 THEN SwappedLoop(svc, rest, o, made)
            ELSE LET v == BulkResult(svc, <<start, end>>)
                     called == Append(made, BulkCall(start, end))
                 IN IF OkOfLen(v, len)
                    THEN SwappedLoop(svc, rest, WriteSlots(o, start, v.v), called)
                    ELSE IF len = 1
                    THEN LET s == SingleResult(svc, start)
                         IN IF s.ok
                            THEN SwappedLoop(svc, rest, WriteSlots(o, start, <<s.v>>),
                                             Append(called, SingleCall(start)))
                            ELSE Returned(s, Append(called, SingleCall(start)))
                    ELSE SwappedLoop(svc, PushRightOnTop(rest, start, Mid(start, len), end),
                                     o, called)

Swapped(svc) ==
    LET n == Len(svc.lines)
    IN SwappedLoop(svc, IF n > 0 THEN <<<<0, n>>>> ELSE <<>>, [k \in 1..n |-> None], <<>>)

\* The calls of the sequence, whatever their order.
CallSet(made) == {made[k] : k \in 1..Len(made)}

\* The same calls were made as the other push order would make, as many.
SameCalls(other) ==
    /\ CallSet(calls.made) = CallSet(other.made)
    /\ Len(calls.made) = Len(other.made)

\* The call of translate_batch_strict succeeds exactly when it would with the
\* other push order, and then returns the same array.
SameOutcome(other) ==
    /\ (pc # "failed") = other.ok
    /\ pc # "failed" => result = other.v

\* C22 as stated: with a service whose answers depend on the range or line
\* asked only, the other push order changes the order of the calls and nothing
\* else: the same calls are made, the run succeeds or fails alike, and the
\* array returned is the same.
C22_Original == Terminated => SameOutcome(Swapped(service)) /\ SameCalls(Swapped(service))

\* C22 (amended): with a service whose answers depend on the range or line
\* asked only, translate_batch_strict succeeds exactly when it would with the
\* other push order, and then returns the same array, having made the same
\* calls in another order. When it fails, the calls made before the failure
\* need not be the same.
C22_PushOrderCosmetic ==
    Terminated =>
        /\ SameOutcome(Swapped(service))
        /\ pc # "failed" => SameCalls(Swapped(service))

\* A window of MaxWindow lines was translated, with a split and a fallback
\* call; with the other push order the calls are made in a different order.
C22_Witness ==
    /\ Translated
    /\ Len(service.lines) = MaxWindow
    /\ calls.made # Swapped(service).made
    /\ \E k \in 1..MaxWindow : result[k] = SingleTr(service.lines[k])
    /\ \E k \in 1..MaxWindow : result[k] = BulkTr(service.lines[k])
====
